---- MODULE Spec2Model ----
(***************************************************************************)
(* Rail graph (routecreation/railgraphs.py) and index assignment           *)
(* (routecreation/openrails_data.py) of openrails-for-simulation.          *)
(*                                                                         *)
(* Geometry is carried exactly on the integer grid: directions are whole   *)
(* degrees (2*pi = 360), and the inputs of the model are straight          *)
(* segments (radius 0) in directions that are multiples of 90 degrees, so  *)
(* that polar(), travel() and abs() are computed without rounding.         *)
(***************************************************************************)
EXTENDS Integers, Sequences, FiniteSets, TLC

\* ------------------------------------------------------------------ bounds
MaxNodes == 4
MaxEdges == 3
MaxObjs == 1
MaxItems == 3
MaxCalls == 2
MaxRegister == 2

\* --------------------------------------------------------------- constants
None == 0

\* object_type=None of a SceneryObject (the object types are strings)
NoType == "None"
SOURCE == 1
TARGET == 0
FullCircle == 360
HalfCircle == 180

\* Inputs of the model (bounded sets the actions draw from)
Positions == {<<0, 0>>}
Dirs == {0, 90}
AddLengths == {-1, 1, 2}
Lengths == {1, 2}
ObjOffsets == {0, 1}
FirstIndexValues == {0, 1, 40000}
Items == 1..MaxItems
MaxLines == 2
MaxLine == 2
MaxWrites == 3
Chars == {"(", ")", "x", " "}
MaxTileCalls == 3
MaxTileItems == 2
TILE_SIZE == 2048
DEFAULT_START_TILE == <<-5354, 14849>>
TilePositions == {<<x, y>> : x \in {-1024, 1024, 1025, 3072}, y \in {0, 2048}}
TileItems == 1..MaxTileItems
MaxSegments == 3
MaxSessions == 2
MaxDelay == 2
MaxSteps == 3
MaxTrains == 6
MaxPath == 2
MaxPathCalls == 2
MaxOffset == 3
\* UNDEFINED = 4294967295, the 32-bit word with all bits set: as a signed 32-bit integer, -1
UNDEFINED == -1
PathPoints == {<<0, 0>>, <<1, 0>>, <<2, 1>>, <<4, 0>>}
CommandValues == {1, 2}
Radii == {-2, 0, 1}
MaxDegree == 3
Angles == {0, 60, 90, 91, 119, 120, 121, 180, 240, 270}

VARIABLES
    nodes,        \* Graph.nodes: list of Node ids
    edges,        \* Graph.edges: list of Edge ids
    node,         \* every Node object created so far: id -> fields
    edge,         \* every Edge object created so far: id -> fields
    obj,          \* every SceneryObject created so far: id -> fields
    last,         \* the last call: its name, arguments, result and the graph before it
    nulled,       \* history: Edges that were given None as source or target by a caller
    calls,        \* history: the number of calls made on the graph so far
    first_index,  \* _Indexer: the first_index it was constructed with
    next_index,   \* _Indexer.next_index
    indices,      \* _Indexer.indices: item -> id
    attrs,        \* item.attrs[key] of every item, for the key of the _Indexer
    reg_order,    \* history: the items in the order of their first registration
    first_ret,    \* history: item -> the id returned by its first registration
    idx_ret,      \* the last call of the _Indexer: [item, id]
    cd,           \* a Node seen by calculate_direction: its incident directions, its direction
    stf,          \* an STFOutput: _parentheses, the text written, whether a write raised
    tm,           \* a _TileManager: its containers, the attrs of the items, the calls made
    sh,           \* the section shapes of a Writer: segments, _section_indices, ids written
    wr,           \* an ORWriter: its Indexers and tiles, and the last write operation
    pf,           \* a call of write_path_file: its points, and the records it writes
    pt,           \* a call of Path.to_global or Path.to_local: the Path and the result
    sd,           \* a StepDelayedCommunication: its queue, current_commands and the steps
    tn            \* the Trains constructed: Train.train_counter and their numbers

graphVars == <<nodes, edges, node, edge, obj, last, nulled, calls>>
indexVars == <<first_index, next_index, indices, attrs, reg_order, first_ret, idx_ret>>
vars == <<nodes, edges, node, edge, obj, last, nulled, calls,
          first_index, next_index, indices, attrs, reg_order, first_ret, idx_ret,
          cd, stf, tm, sh, wr, pf, pt, sd, tn>>
pathVars == <<pf, pt>>
clientVars == <<sd, tn>>

\* What the calls on one object leave alone: the other objects
outsideGraph == <<indexVars, cd, stf, tm, sh, wr, pathVars, clientVars>>
outsideIndexer == <<graphVars, cd, stf, tm, sh, wr, pathVars, clientVars>>
outsideNode == <<graphVars, indexVars, stf, tm, sh, wr, pathVars, clientVars>>
outsideSTF == <<graphVars, indexVars, cd, tm, sh, wr, pathVars, clientVars>>
outsideTiles == <<graphVars, indexVars, cd, stf, sh, wr, pathVars, clientVars>>
outsideShapes == <<graphVars, indexVars, cd, stf, tm, wr, pathVars, clientVars>>
outsideWriter == <<indexVars, cd, stf, tm, sh, pathVars, clientVars>>
outsidePathFile == <<indexVars, cd, stf, tm, sh, wr, pt, clientVars>>
outsidePath == <<indexVars, cd, stf, tm, sh, wr, pf, clientVars>>
outsideCommunication == <<graphVars, indexVars, cd, stf, tm, sh, wr, pathVars, tn>>
outsideTrains == <<graphVars, indexVars, cd, stf, tm, sh, wr, pathVars, sd>>

\* No call on a Path and no simulation client is looked at
NoPaths == pf = <<>> /\ pt = <<>>
NoClient == sd = <<>> /\ tn = <<>>

\* ----------------------------------------------------------------- helpers
Abs(x) == IF x < 0 THEN -x ELSE x

Range(s) == {s[i] : i \in 1..Len(s)}

Contains(s, x) == \E i \in 1..Len(s) : s[i] = x

\* list.remove(x): the first occurrence is removed
ListRemove(s, x) ==
    IF Contains(s, x)
    THEN LET i == CHOOSE k \in 1..Len(s) : s[k] = x /\ \A j \in 1..(k - 1) : s[j] # x
         IN SubSeq(s, 1, i - 1) \o SubSeq(s, i + 1, Len(s))
    ELSE s

ListReverse(s) == [i \in 1..Len(s) |-> s[Len(s) + 1 - i]]

\* list.sort(key=...): stable, ascending
SortByKey(items, keys) ==
    LET n == Len(items)
        rank(i) == Cardinality({j \in 1..n : keys[j] < keys[i] \/ (keys[j] = keys[i] /\ j < i)}) + 1
    IN [p \in 1..n |-> items[CHOOSE i \in 1..n : rank(i) = p]]

RECURSIVE SumSeq(_)
SumSeq(s) == IF s = <<>> THEN 0 ELSE Head(s) + SumSeq(Tail(s))

\* ---------------------------------------------------------------- geometry
VAdd(p, q) == <<p[1] + q[1], p[2] + q[2]>>
VSub(p, q) == <<p[1] - q[1], p[2] - q[2]>>

\* abs(Vector): exact for the axis-parallel vectors of the model
VAbs(v) == IF v[2] = 0 THEN Abs(v[1]) ELSE Abs(v[2])

\* Vector.alpha() = atan2(y, x), in degrees, for axis-parallel vectors
VAlpha(v) ==
    IF v[2] = 0 THEN (IF v[1] < 0 THEN 180 ELSE 0)
    ELSE (IF v[2] > 0 THEN 90 ELSE -90)

AxisParallel(v) == v[1] = 0 \/ v[2] = 0

\* polar(alpha, length) for alpha a multiple of 90 degrees
polar(alpha, length) ==
    CASE alpha % FullCircle = 0 -> <<length, 0>>
      [] alpha % FullCircle = 90 -> <<0, length>>
      [] alpha % FullCircle = 180 -> <<0 - length, 0>>
      [] alpha % FullCircle = 270 -> <<0, 0 - length>>

Pose(pos, direction) == [pos |-> pos, dir |-> direction % FullCircle]

PoseReverse(p) == Pose(p.pos, p.dir + HalfCircle)

angle_between(alpha, beta) == ((beta - alpha + HalfCircle) % FullCircle) - HalfCircle

\* EdgeSegment: [start, length, radius]
EdgeSegment(start, length, radius) == [start |-> start, length |-> length, radius |-> radius]

SegTravel(seg, s) == Pose(VAdd(seg.start.pos, polar(seg.start.dir, s)), seg.start.dir)

SegEnd(seg) == PoseReverse(SegTravel(seg, seg.length))

SegFlip(seg) == EdgeSegment(SegEnd(seg), seg.length, 0 - seg.radius)

\* ------------------------------------------------------------------- graph
\* A graph value: the fields of the Graph and of every object created.
G == [nodes |-> nodes, edges |-> edges, node |-> node, edge |-> edge, obj |-> obj]

EmptyGraph == [nodes |-> <<>>, edges |-> <<>>, node |-> <<>>, edge |-> <<>>, obj |-> <<>>]

NodeIds(g) == 1..Len(g.node)
EdgeIds(g) == 1..Len(g.edge)
ObjIds(g) == 1..Len(g.obj)

End(e, side) == [edge |-> e, side |-> side]

\* No End (None where the code holds an End or None)
NoEnd == End(None, TARGET)

EdgeLength(g, e) ==
    IF g.edge[e].segments # <<>>
    THEN SumSeq([i \in 1..Len(g.edge[e].segments) |-> g.edge[e].segments[i].length])
    ELSE VAbs(VSub(g.node[g.edge[e].source].pos, g.node[g.edge[e].target].pos))

EdgeStart(g, e) ==
    IF g.edge[e].segments # <<>>
    THEN g.edge[e].segments[1].start
    ELSE LET p == g.node[g.edge[e].source].pos
             q == g.node[g.edge[e].target].pos
         IN Pose(p, VAlpha(VSub(q, p)))

EdgeEnd(g, e) ==
    IF g.edge[e].segments # <<>>
    THEN SegEnd(g.edge[e].segments[Len(g.edge[e].segments)])
    ELSE LET p == g.node[g.edge[e].target].pos
             q == g.node[g.edge[e].source].pos
         IN Pose(p, VAlpha(VSub(q, p)))

EndPose(g, end) == IF end.side = SOURCE THEN EdgeStart(g, end.edge) ELSE EdgeEnd(g, end.edge)

EndNode(g, end) == IF end.side = SOURCE THEN g.edge[end.edge].source ELSE g.edge[end.edge].target

OtherEnd(end) == IF end.side = SOURCE THEN End(end.edge, TARGET) ELSE End(end.edge, SOURCE)

Degree(g, n) == Len(g.node[n].incoming) + Len(g.node[n].outgoing)

\* Node.ends(): the incident Ends, sorted (stably) by the angle to the Node's direction;
\* the second sort of the code works on a copy (ends[1:]) and changes nothing.
RawEnds(g, n) ==
    [i \in 1..Len(g.node[n].incoming) |-> End(g.node[n].incoming[i], TARGET)]
    \o [i \in 1..Len(g.node[n].outgoing) |-> End(g.node[n].outgoing[i], SOURCE)]

SortEnds(g, n, ends) ==
    SortByKey(ends, [i \in 1..Len(ends) |->
                        Abs(angle_between(g.node[n].dir, EndPose(g, ends[i]).dir))])

NodeEnds(g, n) == SortEnds(g, n, RawEnds(g, n))

\* connected_ends: ends[1:] for the End at the tip, ends[:1] for every other End
ConnectedAmong(ends, end) == IF end = ends[1] THEN Tail(ends) ELSE SubSeq(ends, 1, 1)

ConnectedEnds(g, n, end) == ConnectedAmong(NodeEnds(g, n), end)

\* Every segment-less Edge with both Nodes set joins Nodes on one grid line: the graphs
\* whose lengths and directions the model computes exactly.
OnGrid(g) ==
    \A e \in EdgeIds(g) :
        (g.edge[e].segments = <<>> /\ g.edge[e].source # None /\ g.edge[e].target # None)
            => AxisParallel(VSub(g.node[g.edge[e].source].pos, g.node[g.edge[e].target].pos))

\* Every Edge has both its Nodes or none
Complete(g) ==
    \A e \in EdgeIds(g) : (g.edge[e].source = None) <=> (g.edge[e].target = None)

\* ----------------------------------------------------- Edge: the primitives
\* n and n.outgoing.remove(e), n and n.outgoing.append(e), and the same for incoming
RemoveOutgoing(g, n, e) ==
    IF n # None THEN [g EXCEPT !.node[n].outgoing = ListRemove(@, e)] ELSE g

AppendOutgoing(g, n, e) ==
    IF n # None THEN [g EXCEPT !.node[n].outgoing = Append(@, e)] ELSE g

\* Fault: the Edge stays in the incoming list of the Node it leaves
KeepIncoming(g, n, e) == g

RemoveIncoming(g, n, e) ==
    IF n # None THEN [g EXCEPT !.node[n].incoming = ListRemove(@, e)] ELSE g

AppendIncoming(g, n, e) ==
    IF n # None THEN [g EXCEPT !.node[n].incoming = Append(@, e)] ELSE g

EdgeSetSource(g, e, source) ==
    IF source # g.edge[e].source
    THEN [AppendOutgoing(RemoveOutgoing(g, g.edge[e].source, e), source, e)
             EXCEPT !.edge[e].source = source]
    ELSE g

EdgeSetTarget(g, e, target) ==
    IF target # g.edge[e].target
    THEN [AppendIncoming(RemoveIncoming(g, g.edge[e].target, e), target, e)
             EXCEPT !.edge[e].target = target]
    ELSE g

\* Edge.flip(), the Nodes: s and t are the source and the target before the call
FlipNodes(g, e, s, t) ==
    AppendOutgoing(
        AppendIncoming(
            [RemoveIncoming(RemoveOutgoing(g, s, e), t, e)
                EXCEPT !.edge[e].source = t, !.edge[e].target = s],
            s, e),
        t, e)

\* Fault: the segments are flipped, and the list keeps its order
FlipSegmentsInPlace(g, e) ==
    [g EXCEPT !.edge[e].segments = [i \in 1..Len(@) |-> SegFlip(@[i])]]

\* Edge.flip(), the segments: each is flipped, and the list reversed
FlipSegments(g, e) ==
    [g EXCEPT !.edge[e].segments = ListReverse([i \in 1..Len(@) |-> SegFlip(@[i])])]

\* Edge.flip(), the objects: the loop reads self.length() after the segments are reversed
EdgeFlipObjs(g, e) ==
    [g EXCEPT !.obj = [o \in ObjIds(g) |->
        IF Contains(g.edge[e].objs, o) /\ g.obj[o].rel = e
        THEN [g.obj[o] EXCEPT !.dir = (@ + HalfCircle) % FullCircle,
                              !.x = EdgeLength(g, e) - @,
                              !.y = 0 - @]
        ELSE g.obj[o]]]

EdgeFlip(g, e) ==
    EdgeFlipObjs(FlipSegments(FlipNodes(g, e, g.edge[e].source, g.edge[e].target), e), e)

\* Node(pose, graph, s)
NewNodeIn(g, pose, graph, s) ==
    [g EXCEPT !.node = Append(@, [pos |-> pose.pos, dir |-> pose.dir, s |-> s,
                                  graph |-> graph,
                                  incoming |-> <<>>, outgoing |-> <<>>]),
              !.nodes = IF graph THEN Append(@, Len(g.node) + 1) ELSE @]

\* graph or (source and source.graph) or (target and target.graph)
EdgeOwner(g, source, target, graph) ==
    graph \/ (source # None /\ g.node[source].graph)
          \/ (target # None /\ g.node[target].graph)

\* Edge(source, target, graph)
NewEdgeIn(g, source, target, graph) ==
    AppendIncoming(
        AppendOutgoing(
            [g EXCEPT !.edge = Append(@, [source |-> source, target |-> target,
                                          segments |-> <<>>,
                                          graph |-> EdgeOwner(g, source, target, graph),
                                          objs |-> <<>>]),
                      !.edges = IF EdgeOwner(g, source, target, graph)
                                THEN Append(@, Len(g.edge) + 1) ELSE @],
            source, Len(g.edge) + 1),
        target, Len(g.edge) + 1)

\* Graph.remove_edge: raises ValueError when the Edge is not in Graph.edges
GraphRemoveEdge(g, e) ==
    [EdgeSetTarget(EdgeSetSource(g, e, None), e, None) EXCEPT !.edges = ListRemove(@, e)]

\* Graph.check(): no assertion fails
Check(g) ==
    /\ \A i \in 1..Len(g.edges) :
         /\ g.edge[g.edges[i]].source # None
         /\ Contains(g.node[g.edge[g.edges[i]].source].outgoing, g.edges[i])
         /\ g.edge[g.edges[i]].target # None
         /\ Contains(g.node[g.edge[g.edges[i]].target].incoming, g.edges[i])
    /\ \A i \in 1..Len(g.nodes) :
         /\ \A k \in 1..Len(g.node[g.nodes[i]].incoming) :
                g.edge[g.node[g.nodes[i]].incoming[k]].target = g.nodes[i]
         /\ \A k \in 1..Len(g.node[g.nodes[i]].outgoing) :
                g.edge[g.node[g.nodes[i]].outgoing[k]].source = g.nodes[i]

\* Graph.remove_node: the Edges are removed in the order incoming + outgoing (the list is
\* built before the loop); the call raises at the first Edge that is no longer in
\* Graph.edges (a self-loop met the second time, an Edge of no Graph), or when the Node
\* is not in Graph.nodes. Result: [g, raised].
RECURSIVE RemoveEdgesOf(_, _)
RemoveEdgesOf(g, es) ==
    IF es = <<>> THEN [g |-> g, raised |-> FALSE]
    ELSE IF ~Contains(g.edges, Head(es))
         THEN [g |-> GraphRemoveEdge(g, Head(es)), raised |-> TRUE]
         ELSE RemoveEdgesOf(GraphRemoveEdge(g, Head(es)), Tail(es))

\* self.nodes.remove(node), after the loop. r = [g, raised] is the loop's result.
RemoveFromNodes(r, n) ==
    IF r.raised \/ ~Contains(r.g.nodes, n)
    THEN [g |-> r.g, raised |-> TRUE]
    ELSE [g |-> [r.g EXCEPT !.nodes = ListRemove(@, n)], raised |-> FALSE]

GraphRemoveNode(g, n) ==
    RemoveFromNodes(RemoveEdgesOf(g, g.node[n].incoming \o g.node[n].outgoing), n)

\* Node.add_edge: self.pose.reverse() if (length < 0) ^ backward else self.pose
StartPose(g, n, length, backward) ==
    IF (length < 0) # backward
    THEN PoseReverse(Pose(g.node[n].pos, g.node[n].dir))
    ELSE Pose(g.node[n].pos, g.node[n].dir)

\* Node.add_edge: the new Edge e with its one segment, and its new target Node m
AddSegmentEdge(g, n, length, segment, e, m) ==
    EdgeSetTarget(
        NewNodeIn([NewEdgeIn(g, n, None, FALSE) EXCEPT !.edge[e].segments = Append(@, segment)],
                  PoseReverse(SegEnd(segment)), g.node[n].graph, g.node[n].s + length),
        e, m)

\* Node.add_edge: the End returned, after the flip of an incoming Edge
AddEdgeResult(g, e, length) ==
    IF length >= 0
    THEN [g |-> g, ret |-> End(e, TARGET)]
    ELSE [g |-> EdgeFlip(g, e), ret |-> End(e, SOURCE)]

\* Node.add_edge(length, radius, backward). Result: [g, ret] with ret the End returned.
NodeAddEdge(g, n, length, radius, backward) ==
    AddEdgeResult(
        AddSegmentEdge(g, n, length,
                       EdgeSegment(StartPose(g, n, length, backward), Abs(length), radius),
                       Len(g.edge) + 1, Len(g.node) + 1),
        Len(g.edge) + 1, length)

\* Fault: the segment is appended at the back for an End of either side
ExtendEdgeAtBack(g, end, n, segment) ==
    [g EXCEPT !.edge[end.edge].segments = Append(@, segment),
              !.node[n].s = IF end.side = TARGET THEN @ + segment.length ELSE @ - segment.length,
              !.node[n].pos = SegEnd(segment).pos,
              !.node[n].dir = SegEnd(segment).dir]

\* End.add_edge, first branch: the Edge of the End is extended by the segment, and the
\* Node moves to the segment's end (end_pose is taken before segment.flip())
ExtendEdge(g, end, n, segment) ==
    [g EXCEPT !.edge[end.edge].segments =
                  IF end.side = TARGET THEN Append(@, segment) ELSE <<SegFlip(segment)>> \o @,
              !.node[n].s = IF end.side = TARGET THEN @ + segment.length ELSE @ - segment.length,
              !.node[n].pos = SegEnd(segment).pos,
              !.node[n].dir = SegEnd(segment).dir]

\* Fault: the new Edge is never flipped by End.add_edge
KeepAsReturned(r, end) == r

\* End.add_edge, the end of the second branch: r = [g, ret] is the result of Node.add_edge
FlipAtSource(r, end) ==
    IF end.side = SOURCE
    THEN [g |-> EdgeFlip(r.g, r.ret.edge), ret |-> End(r.ret.edge, SOURCE)]
    ELSE r

\* End.add_edge, second branch: the Node takes the pose of the End (a turnout with its
\* tip towards the End) or its reverse, and gets the new Edge
Branch(g, end, n, length, radius, turnout) ==
    FlipAtSource(
        NodeAddEdge([g EXCEPT !.node[n].pos = EndPose(g, end).pos,
                              !.node[n].dir = IF turnout THEN EndPose(g, end).dir
                                              ELSE PoseReverse(EndPose(g, end)).dir],
                    n, length, radius, turnout),
        end)

\* End.add_edge(length, radius, extend_edge). Result: [g, ret].
EndAddEdge(g, end, length, radius, extend_edge) ==
    IF length = 0 THEN [g |-> g, ret |-> end]
    ELSE IF extend_edge /\ length >= 0 /\ Degree(g, EndNode(g, end)) = 1
    THEN [g |-> ExtendEdge(g, end, EndNode(g, end),
                           EdgeSegment(PoseReverse(EndPose(g, end)), length, radius)),
          ret |-> end]
    ELSE Branch(g, end, EndNode(g, end), length, radius,
                ConnectedEnds(g, EndNode(g, end), end) # <<>>)

\* Node.directions()
NodeDirections(g, n) ==
    [i \in 1..Len(g.node[n].incoming) |-> EdgeEnd(g, g.node[n].incoming[i]).dir]
    \o [i \in 1..Len(g.node[n].outgoing) |-> EdgeStart(g, g.node[n].outgoing[i]).dir]

\* Fault: the test is abs(angle) > 2/3 * pi
WiderThanThird(a) == Abs(a) * 3 > 2 * HalfCircle

\* abs(angle) > 0.66 * pi
WideAngle(a) == Abs(a) * 100 > 66 * HalfCircle

\* The indices i of calculate_direction's last loop that pass its test
Tips(dirs) ==
    {i \in 1..Len(dirs) : \A j \in 1..Len(dirs) : j # i => WideAngle(angle_between(dirs[i], dirs[j]))}

\* calculate_direction on the list dirs; cur is the direction the Node has
DirectionAmong(dirs, cur) ==
    IF Len(dirs) = 1 THEN [ok |-> TRUE, dir |-> dirs[1] % FullCircle]
    ELSE IF Len(dirs) = 2
    THEN IF Abs(angle_between(dirs[1], dirs[2])) * 2 <= HalfCircle
         THEN [ok |-> FALSE, dir |-> cur]
         ELSE [ok |-> TRUE,
               dir |-> (dirs[2] + (angle_between(dirs[2], dirs[1] + HalfCircle) \div 2)) % FullCircle]
    ELSE IF Tips(dirs) # {}
         THEN [ok |-> TRUE, dir |-> dirs[CHOOSE i \in Tips(dirs) : \A j \in Tips(dirs) : i <= j] % FullCircle]
         ELSE [ok |-> FALSE, dir |-> cur]

\* Node.calculate_direction(). Result: [ok, dir] with dir the direction the Node has after it.
CalculateDirection(g, n) == DirectionAmong(NodeDirections(g, n), g.node[n].dir)

ApplyDirection(g, n) == [g EXCEPT !.node[n].dir = CalculateDirection(g, n).dir]

\* Fault: the new Node lists the Edge of the End twice
EndSetNodeTwice(g, end, n) ==
    IF end.side = SOURCE THEN AppendOutgoing(EdgeSetSource(g, end.edge, n), n, end.edge)
    ELSE AppendIncoming(EdgeSetTarget(g, end.edge, n), n, end.edge)

\* end.set_node(node)
EndSetNode(g, end, n) ==
    IF end.side = SOURCE THEN EdgeSetSource(g, end.edge, n) ELSE EdgeSetTarget(g, end.edge, n)

\* The index (in ends) of the End most nearly opposite to ends[1]: the loop of set_directions
RECURSIVE Opposite(_, _, _, _)
Opposite(g, ends, i, opposite) ==
    IF i > Len(ends) THEN opposite
    ELSE IF Abs(angle_between(EndPose(g, ends[1]).dir, EndPose(g, ends[i]).dir))
            > Abs(angle_between(EndPose(g, ends[1]).dir, EndPose(g, ends[opposite]).dir))
         THEN Opposite(g, ends, i + 1, i)
         ELSE Opposite(g, ends, i + 1, opposite)

\* set_directions, the body of the while loop after new_node is created: the Ends of
\* node n that move to new_node m, and new_node.calculate_direction()
MoveEnds(g, n, m, ends) ==
    IF Degree(g, n) = 2
    THEN EndSetNode(g, ends[1], m)
    ELSE EndSetNode(EndSetNode(g, ends[1], m), ends[Opposite(g, ends, 3, 2)], m)

SplitOff(g, n, m) == ApplyDirection(MoveEnds(g, n, m, NodeEnds(g, n)), m)

\* The while loop of set_directions for one Node. st = [g, new_nodes, splits], new_nodes a
\* list of pairs <<new Node, the Node it was split from>> in creation order. History:
\* splits lists, for every pass of the loop, the Node and its degree before and after.
RECURSIVE SplitNode(_, _)
SplitNode(st, n) ==
    IF CalculateDirection(st.g, n).ok THEN [st EXCEPT !.g = ApplyDirection(st.g, n)]
    ELSE SplitNode([g |-> SplitOff(NewNodeIn(st.g, Pose(st.g.node[n].pos, st.g.node[n].dir), FALSE, 0),
                                   n, Len(st.g.node) + 1),
                    new_nodes |-> Append(st.new_nodes, <<Len(st.g.node) + 1, n>>),
                    splits |-> Append(st.splits,
                                      <<n, Degree(st.g, n),
                                        Degree(MoveEnds(st.g, n, None, NodeEnds(st.g, n)), n)>>)],
                   n)

RECURSIVE SplitNodes(_, _)
SplitNodes(st, ns) ==
    IF ns = <<>> THEN st ELSE SplitNodes(SplitNode(st, Head(ns)), Tail(ns))

\* self.nodes.extend(new_nodes.keys())
ExtendNodes(st) ==
    [st EXCEPT !.g.nodes = @ \o [i \in 1..Len(st.new_nodes) |-> st.new_nodes[i][1]]]

\* Graph.set_directions(). Result: [g, new_nodes].
GraphSetDirections(g) ==
    ExtendNodes(SplitNodes([g |-> g, new_nodes |-> <<>>, splits |-> <<>>], g.nodes))

\* The object loop of contract_edges: every object of e2 is appended to e1's list, and
\* the ones relative to e2 are re-parented and shifted by e1.length()
RECURSIVE MoveObjs(_, _, _, _)
MoveObjs(g, os, e1, e2) ==
    IF os = <<>> THEN g
    ELSE MoveObjs([g EXCEPT !.obj[Head(os)].rel = IF @ = e2 THEN e1 ELSE @,
                            !.obj[Head(os)].x = IF g.obj[Head(os)].rel = e2
                                                THEN @ + EdgeLength(g, e1) ELSE @,
                            !.edge[e1].objs = Append(@, Head(os))],
                  Tail(os), e1, e2)

\* if len(node.incoming) == 2: node.incoming[1].flip(), and the same for outgoing
FlipSecondIncoming(g, n) ==
    IF Len(g.node[n].incoming) = 2 THEN EdgeFlip(g, g.node[n].incoming[2]) ELSE g

FlipSecondOutgoing(g, n) ==
    IF Len(g.node[n].outgoing) = 2 THEN EdgeFlip(g, g.node[n].outgoing[2]) ELSE g

\* e2.scenery_objects.clear(); e1.segments.extend(e2.segments)
JoinSegments(g, e1, e2) ==
    [g EXCEPT !.edge[e2].objs = <<>>,
              !.edge[e1].segments = @ \o g.edge[e2].segments]

\* e1.set_target(e2.target()), the object loop, and the segments
Merge(g, e1, e2) ==
    JoinSegments(MoveObjs(EdgeSetTarget(g, e1, g.edge[e2].target), g.edge[e2].objs, e1, e2),
                 e1, e2)

\* self.remove_edge(e2) (which raises for an Edge of no Graph), the two entries of the
\* returned dict, and self.nodes.remove(node)
Absorb(st, g, n, e1, e2) ==
    IF ~Contains(g.edges, e2)
    THEN [g |-> GraphRemoveEdge(g, e2), removed |-> st.removed, raised |-> TRUE]
    ELSE [g |-> [GraphRemoveEdge(g, e2) EXCEPT !.nodes = ListRemove(@, n)],
          removed |-> st.removed \o << <<"Node", n, e1>>, <<"Edge", e2, e1>> >>,
          raised |-> FALSE]

\* The contraction of Node n once its Edges are one incoming e1 and one outgoing e2
ContractPair(st, g, n, e1, e2) == Absorb(st, Merge(g, e1, e2), n, e1, e2)

ContractDirected(st, g, n) == ContractPair(st, g, n, g.node[n].incoming[1], g.node[n].outgoing[1])

\* Fault: the loop of contract_edges passes over the Node
KeepNode(st, n) == st

\* The body of the loop of contract_edges for one Node. st = [g, removed, raised], removed
\* the returned dict as a list of entries <<"Node" or "Edge", key id, value Edge id>>.
ContractNode(st, n) ==
    IF st.raised \/ Degree(st.g, n) # 2
          \/ (st.g.node[n].incoming \o st.g.node[n].outgoing)[1]
                 = (st.g.node[n].incoming \o st.g.node[n].outgoing)[2]
    THEN st
    ELSE ContractDirected(st, FlipSecondOutgoing(FlipSecondIncoming(st.g, n), n), n)

RECURSIVE ContractNodes(_, _)
ContractNodes(st, ns) ==
    IF ns = <<>> THEN st ELSE ContractNodes(ContractNode(st, Head(ns)), Tail(ns))

\* Graph.contract_edges(). Result: [g, removed, raised].
GraphContractEdges(g) ==
    ContractNodes([g |-> g, removed |-> <<>>, raised |-> FALSE], g.nodes)

\* Graph.end_nodes()
EndNodes(g) == SelectSeq(g.nodes, LAMBDA n : Degree(g, n) = 1)

\* _make_directed(end, forward) of make_directed. st = [g, vn, ve, ...]: the graph and the
\* visited Nodes and Edges. History: added and flipped list the Edges in the order
\* visited.add(end.edge) and end.edge.flip() are executed, entered counts the calls of
\* _make_directed.
RECURSIVE MakeDirectedFrom(_, _, _)
RECURSIVE MakeDirectedEach(_, _, _, _)

\* for e in ends: if e != skip: _make_directed(e, forward)
MakeDirectedEach(st, ends, forward, skip) ==
    IF ends = <<>> THEN st
    ELSE IF Head(ends) = skip THEN MakeDirectedEach(st, Tail(ends), forward, skip)
    ELSE MakeDirectedEach(MakeDirectedFrom(st, Head(ends), forward), Tail(ends), forward, skip)

\* The recursion from curr_node, reached by end, over its Ends
Descend(st, ends, end, forward) ==
    IF end = ends[1]
    THEN MakeDirectedEach(st, Tail(ends), forward, NoEnd)
    ELSE MakeDirectedEach(MakeDirectedFrom(st, ends[1], forward), Tail(ends), ~forward, end)

\* Fault: curr_node is visited, but its s is not assigned
VisitNodeKeepS(st, end, curr_node, s, forward) ==
    IF curr_node \notin st.vn
    THEN Descend([st EXCEPT !.vn = @ \cup {curr_node}], NodeEnds(st.g, curr_node), end, forward)
    ELSE st

\* if curr_node not in visited: ...
VisitNode(st, end, curr_node, s, forward) ==
    IF curr_node \notin st.vn
    THEN Descend([st EXCEPT !.vn = @ \cup {curr_node},
                            !.g.node[curr_node].s =
                                IF forward THEN s + EdgeLength(st.g, end.edge)
                                ELSE s - EdgeLength(st.g, end.edge)],
                 NodeEnds(st.g, curr_node), end, forward)
    ELSE st

\* if (end.side == EdgeEnd.TARGET) ^ forward: end.edge.flip()
FlipAgainst(st, end, forward) ==
    IF (end.side = TARGET) # forward
    THEN [st EXCEPT !.g = EdgeFlip(st.g, end.edge), !.flipped = Append(@, end.edge)]
    ELSE st

\* Fault: the Edge is not put into visited
VisitEdgeUnmarked(st, end, s, forward) ==
    IF end.edge \in st.ve THEN st
    ELSE FlipAgainst(
             VisitNode([st EXCEPT !.added = Append(@, end.edge)],
                       end, EndNode(st.g, end), s, forward),
             end, forward)

\* _make_directed after end = end.other_end(); s is the s of the Node it comes from
VisitEdge(st, end, s, forward) ==
    IF end.edge \in st.ve THEN st
    ELSE FlipAgainst(
             VisitNode([st EXCEPT !.ve = @ \cup {end.edge}, !.added = Append(@, end.edge)],
                       end, EndNode(st.g, end), s, forward),
             end, forward)

MakeDirectedFrom(st, end0, forward) ==
    VisitEdge([st EXCEPT !.entered = @ + 1], OtherEnd(end0),
              st.g.node[EndNode(st.g, end0)].s, forward)

\* The body of the loop of make_directed for an end node that is not visited
MakeDirectedRoot(st, first_end) == MakeDirectedFrom(st, first_end, first_end.side = SOURCE)

\* The loop of make_directed over the end nodes (the list is built before the loop)
RECURSIVE MakeDirectedRoots(_, _)
MakeDirectedRoots(st, roots) ==
    IF roots = <<>> THEN st
    ELSE IF Head(roots) \in st.vn THEN MakeDirectedRoots(st, Tail(roots))
    ELSE MakeDirectedRoots(
             MakeDirectedRoot([st EXCEPT !.vn = @ \cup {Head(roots)}, !.g.node[Head(roots)].s = 0],
                              NodeEnds(st.g, Head(roots))[1]),
             Tail(roots))

\* Graph.make_directed(). Result: the graph.
MakeDirected(g) ==
    MakeDirectedRoots([g |-> g, vn |-> {}, ve |-> {}, added |-> <<>>, flipped |-> <<>>,
                       entered |-> 0],
                      EndNodes(g))

GraphMakeDirected(g) == MakeDirected(g).g

\* --------------------------------------------------------- find_shortest_path
\* Fault: the heap gives its entries back in the order of insertion
HeapFirst(heap) == CHOOSE h \in heap : \A k \in heap : h[2] <= k[2]

\* heapq.heappop: the least entry <<s, cnt, end>>, by s and then by cnt
HeapMin(heap) ==
    CHOOSE h \in heap : \A k \in heap : h[1] < k[1] \/ (h[1] = k[1] /\ h[2] <= k[2])

\* Fault: the Ends found are recorded without their predecessor
RECURSIVE ExpandNoPred(_, _, _, _, _)
ExpandNoPred(g, st, ends, s, current_end) ==
    IF ends = <<>> THEN st
    ELSE IF Head(ends) \in DOMAIN st.pred
         THEN ExpandNoPred(g, st, Tail(ends), s, current_end)
         ELSE ExpandNoPred(g,
                           [st EXCEPT !.pred = (Head(ends) :> NoEnd) @@ @,
                                      !.heap = @ \cup {<<s + EdgeLength(g, Head(ends).edge), st.cnt, Head(ends)>>},
                                      !.cnt = @ + 1],
                           Tail(ends), s, current_end)

\* The for loop over connected_ends in find_shortest_path. st = [heap, pred, cnt, cur, found],
\* pred the dict predecessors as a function End -> End (or NoEnd).
RECURSIVE Expand(_, _, _, _, _)
Expand(g, st, ends, s, current_end) ==
    IF ends = <<>> THEN st
    ELSE IF Head(ends) \in DOMAIN st.pred
         THEN Expand(g, st, Tail(ends), s, current_end)
         ELSE Expand(g,
                     [st EXCEPT !.pred = (Head(ends) :> current_end) @@ @,
                                !.heap = @ \cup {<<s + EdgeLength(g, Head(ends).edge), st.cnt, Head(ends)>>},
                                !.cnt = @ + 1],
                     Tail(ends), s, current_end)

\* The while loop of find_shortest_path, and its body for the entry h popped from the heap
RECURSIVE Search(_, _, _)
Visit(g, st, h, end_node) ==
    IF EndNode(g, OtherEnd(h[3])) = end_node
    THEN [st EXCEPT !.heap = @ \ {h}, !.cur = h[3], !.found = TRUE]
    ELSE Search(g,
                Expand(g, [st EXCEPT !.heap = @ \ {h}, !.cur = h[3]],
                       ConnectedEnds(g, EndNode(g, OtherEnd(h[3])), OtherEnd(h[3])),
                       h[1], h[3]),
                end_node)

Search(g, st, end_node) ==
    IF st.heap = {} THEN st ELSE Visit(g, st, HeapMin(st.heap), end_node)

\* The first loop of find_shortest_path: the start Ends are pushed in order
RECURSIVE PushStarts(_, _, _)
PushStarts(g, st, ends) ==
    IF ends = <<>> THEN st
    ELSE PushStarts(g,
                    [st EXCEPT !.pred = (Head(ends) :> NoEnd) @@ @,
                               !.heap = @ \cup {<<EdgeLength(g, Head(ends).edge), st.cnt, Head(ends)>>},
                               !.cnt = @ + 1],
                    Tail(ends))

\* The last loop of find_shortest_path: the Path, from current_end back along predecessors
RECURSIVE BuildPath(_, _, _)
BuildPath(pred, current_end, pth) ==
    IF current_end = NoEnd THEN pth
    ELSE BuildPath(pred, pred[current_end], <<current_end>> \o pth)

\* Path(): the Ends, with start_offset = end_offset = 0
PathOf(st) == [ends |-> BuildPath(st.pred, st.cur, <<>>), start_offset |-> 0, end_offset |-> 0]

\* find_shortest_path(start, end_node) with start_ends the Ends of start (Node.ends() or
\* the one End given). Result: the Path [ends, start_offset, end_offset].
FindShortestPath(g, start_ends, end_node) ==
    PathOf(Search(g,
                  PushStarts(g, [heap |-> {}, pred |-> <<>>, cnt |-> 0, cur |-> NoEnd, found |-> FALSE],
                             start_ends),
                  end_node))

\* ------------------------------------------------------------------ _Indexer
\* The _Indexer as a value: [next_index, indices, attrs]
Indexer == [next_index |-> next_index, indices |-> indices, attrs |-> attrs]

\* Fault: the index handed out is not used up
get_or_add_again(ix, item) ==
    IF item \in DOMAIN ix.indices
    THEN [ix |-> ix, ret |-> ix.indices[item]]
    ELSE [ix |-> [ix EXCEPT !.indices = (item :> ix.next_index) @@ @,
                            !.attrs = (item :> ix.next_index) @@ @],
          ret |-> ix.next_index]

\* _Indexer.get_or_add(item). Result: [ix, ret] with ret the index returned.
get_or_add(ix, item) ==
    IF item \in DOMAIN ix.indices
    THEN [ix |-> ix, ret |-> ix.indices[item]]
    ELSE [ix |-> [next_index |-> ix.next_index + 1,
                  indices |-> (item :> ix.next_index) @@ ix.indices,
                  attrs |-> (item :> ix.next_index) @@ ix.attrs],
          ret |-> ix.next_index]

\* _Indexer.register(*items). Result: the _Indexer.
RECURSIVE register(_, _)
register(ix, items) ==
    IF items = <<>> THEN ix ELSE register(get_or_add(ix, Head(items)).ix, Tail(items))

\* ----------------------------------------------------------------- actions
Install(g) ==
    /\ nodes' = g.nodes
    /\ edges' = g.edges
    /\ node' = g.node
    /\ edge' = g.edge
    /\ obj' = g.obj

Call(name) == [op |-> name]

\* One more call of the session
Step == calls < MaxCalls /\ calls' = calls + 1

NewNode ==
    /\ Step
    /\ Len(node) < MaxNodes
    /\ \E p \in Positions, d \in Dirs, graph \in {TRUE} :
         Install(NewNodeIn(G, Pose(p, d), graph, 0))
    /\ last' = Call("Node")
    /\ UNCHANGED <<nulled>>
    /\ UNCHANGED outsideGraph

NewEdge ==
    /\ Step
    /\ Len(edge) < MaxEdges
    /\ \E s \in NodeIds(G) \cup {None}, t \in NodeIds(G) \cup {None}, graph \in BOOLEAN :
         /\ \E g \in {NewEdgeIn(G, s, t, graph)} : OnGrid(g) /\ Install(g)
         /\ nulled' = IF s = None \/ t = None THEN nulled \cup {Len(edge) + 1} ELSE nulled
    /\ last' = Call("Edge")
    /\ UNCHANGED outsideGraph

SetSource ==
    /\ Step
    /\ \E e \in EdgeIds(G), n \in NodeIds(G) \cup {None} :
         /\ \E g \in {EdgeSetSource(G, e, n)} : OnGrid(g) /\ Install(g)
         /\ nulled' = IF n = None THEN nulled \cup {e} ELSE nulled
    /\ last' = Call("set_source")
    /\ UNCHANGED outsideGraph

SetTarget ==
    /\ Step
    /\ \E e \in EdgeIds(G), n \in NodeIds(G) \cup {None} :
         /\ \E g \in {EdgeSetTarget(G, e, n)} : OnGrid(g) /\ Install(g)
         /\ nulled' = IF n = None THEN nulled \cup {e} ELSE nulled
    /\ last' = Call("set_target")
    /\ UNCHANGED outsideGraph

Flip ==
    /\ Step
    /\ \E e \in EdgeIds(G) :
         /\ (edge[e].objs # <<>> /\ edge[e].segments = <<>>)
                => (edge[e].source # None /\ edge[e].target # None)
         /\ Install(EdgeFlip(G, e))
         /\ last' = [op |-> "flip", pre |-> G, e |-> e]
    /\ UNCHANGED <<nulled>>
    /\ UNCHANGED outsideGraph

RemoveEdge ==
    /\ Step
    /\ \E e \in EdgeIds(G) :
         Install(GraphRemoveEdge(G, e))
    /\ last' = Call("remove_edge")
    /\ UNCHANGED <<nulled>>
    /\ UNCHANGED outsideGraph

RemoveNode ==
    /\ Step
    /\ \E n \in NodeIds(G) :
         \E r \in {GraphRemoveNode(G, n)} :
            /\ Install(r.g)
            /\ last' = [op |-> "remove_node", raised |-> r.raised]
    /\ UNCHANGED <<nulled>>
    /\ UNCHANGED outsideGraph

\* SceneryObject(Pose(Vector(x, 0)), relative_to=edge)
NewSceneryObject ==
    /\ Step
    /\ Len(obj) < MaxObjs
    /\ \E e \in EdgeIds(G), x \in ObjOffsets :
         Install([G EXCEPT !.obj = Append(@, [x |-> x, y |-> 0, dir |-> 0, rel |-> e,
                                         object_type |-> NoType, render |-> TRUE,
                                         shapefile |-> FALSE]),
                           !.edge[e].objs = Append(@, Len(obj) + 1)])
    /\ last' = Call("SceneryObject")
    /\ UNCHANGED <<nulled>>
    /\ UNCHANGED outsideGraph

NodeAddEdgeCall ==
    /\ Step
    /\ Len(node) < MaxNodes
    /\ Len(edge) < MaxEdges
    /\ \E n \in NodeIds(G), length \in AddLengths, backward \in BOOLEAN :
         Install(NodeAddEdge(G, n, length, 0, backward).g)
    /\ last' = Call("Node.add_edge")
    /\ UNCHANGED <<nulled>>
    /\ UNCHANGED outsideGraph

EndAddEdgeCall ==
    /\ Step
    /\ Complete(G)
    /\ \E e \in EdgeIds(G), side \in {SOURCE, TARGET}, length \in AddLengths \cup {0},
          extend_edge \in BOOLEAN :
         /\ EndNode(G, End(e, side)) # None
         /\ \E r \in {EndAddEdge(G, End(e, side), length, 0, extend_edge)} :
               /\ Len(r.g.node) <= MaxNodes
               /\ Len(r.g.edge) <= MaxEdges
               /\ OnGrid(r.g)
               /\ Install(r.g)
               /\ last' = [op |-> "End.add_edge", pre |-> G, end |-> End(e, side),
                           length |-> length, extend_edge |-> extend_edge, ret |-> r.ret]
    /\ UNCHANGED <<nulled>>
    /\ UNCHANGED outsideGraph

SetDirectionsCall ==
    /\ Step
    /\ Complete(G)
    /\ \A i \in 1..Len(nodes) : Degree(G, nodes[i]) >= 1
    /\ \E r \in {GraphSetDirections(G)} :
         /\ Install(r.g)
         /\ last' = [op |-> "set_directions", pre |-> G, new_nodes |-> r.new_nodes,
                     splits |-> r.splits]
    /\ UNCHANGED <<nulled>>
    /\ UNCHANGED outsideGraph

ContractEdgesCall ==
    /\ Step
    /\ Complete(G)
    /\ \E r \in {GraphContractEdges(G)} :
         /\ Install(r.g)
         /\ last' = [op |-> "contract_edges", pre |-> G, removed |-> r.removed, raised |-> r.raised]
    /\ UNCHANGED <<nulled>>
    /\ UNCHANGED outsideGraph

MakeDirectedCall ==
    /\ Step
    /\ Complete(G)
    /\ \E r \in {MakeDirected(G)} :
          /\ Install(r.g)
          /\ last' = [op |-> "make_directed", pre |-> G, added |-> r.added,
                      flipped |-> r.flipped, entered |-> r.entered]
    /\ UNCHANGED <<nulled>>
    /\ UNCHANGED outsideGraph

\* find_shortest_path(start, end_node), start a Node
FindShortestPathFromNode ==
    /\ Step
    /\ Complete(G)
    /\ \E start \in NodeIds(G), end_node \in NodeIds(G) :
         last' = [op |-> "find_shortest_path", start_node |-> start, start_end |-> NoEnd,
                  end_node |-> end_node,
                  path |-> FindShortestPath(G, NodeEnds(G, start), end_node)]
    /\ UNCHANGED <<nodes, edges, node, edge, obj, nulled>>
    /\ UNCHANGED outsideGraph

\* find_shortest_path(start, end_node), start an End
FindShortestPathFromEnd ==
    /\ Step
    /\ Complete(G)
    /\ \E e \in EdgeIds(G), side \in {SOURCE, TARGET}, end_node \in NodeIds(G) :
         /\ EndNode(G, End(e, side)) # None
         /\ last' = [op |-> "find_shortest_path", start_node |-> None, start_end |-> End(e, side),
                     end_node |-> end_node,
                     path |-> FindShortestPath(G, <<End(e, side)>>, end_node)]
    /\ UNCHANGED <<nodes, edges, node, edge, obj, nulled>>
    /\ UNCHANGED outsideGraph

\* ------------------------------------------------------------ start graphs
\* The graphs a session starts from, each built by the calls of a route script
\* (the authoring calls of the demos): the state after those calls.

\* graph = Graph(); start = Node(Pose(Vector(0, 0), d), graph); start.add_edge(l1)
LineScript(d, l1) ==
    NodeAddEdge(NewNodeIn(EmptyGraph, Pose(<<0, 0>>, d), TRUE, 0), 1, l1, 0, FALSE)

\* r.add_edge(l, extend_edge=False) for r = [g, ret] the result of the call before
ThenAddEdge(r, l) == EndAddEdge(r.g, r.ret, l, 0, FALSE)

\* ... .add_edge(l2, extend_edge=False).add_edge(l3, extend_edge=False)
ChainScript(d, l1, l2, l3) == ThenAddEdge(ThenAddEdge(LineScript(d, l1), l2), l3)

\* dispatch.add_edge(l2, extend_edge=False); dispatch.add_edge(l3, extend_edge=False)
TwoBranches(r, l2, l3) == EndAddEdge(ThenAddEdge(r, l2).g, r.ret, l3, 0, FALSE)

\* dispatch = start.add_edge(l1), and the two branches: a switch with its tip towards start
SwitchScript(d, l1, l2, l3) == TwoBranches(LineScript(d, l1), l2, l3)

\* The second branch of a switch led to the Node of the first (set_target) and its own
\* Node removed (remove_node)
JoinBranches(g) == GraphRemoveNode(EdgeSetTarget(g, 3, g.edge[2].target), g.edge[3].target).g

\* The switch with its branches joined: two parallel routes of lengths l2 and l3
ParallelScript(d, l1, l2, l3) == JoinBranches(SwitchScript(d, l1, l2, l3).g)

\* Node(...) three times on the x axis
ThreeNodes(x2, x3) ==
    NewNodeIn(NewNodeIn(NewNodeIn(EmptyGraph, Pose(<<0, 0>>, 0), TRUE, 0),
                        Pose(<<x2, 0>>, 0), TRUE, 0),
              Pose(<<x3, 0>>, 0), TRUE, 0)

\* Three Nodes on the x axis joined by two Edges without segments:
\* Edge(n1, n2), then Edge(n2, n3) or Edge(n3, n2)
BareChainScript(x2, x3, forward) ==
    IF forward
    THEN NewEdgeIn(NewEdgeIn(ThreeNodes(x2, x3), 1, 2, FALSE), 2, 3, FALSE)
    ELSE NewEdgeIn(NewEdgeIn(ThreeNodes(x2, x3), 1, 2, FALSE), 3, 2, FALSE)

\* start.add_edge(l1); start.add_edge(l2); start.add_edge(l3): three Edges that leave one
\* Node in one direction
FanScript(l1, l2, l3) ==
    NodeAddEdge(NodeAddEdge(LineScript(0, l1).g, 1, l2, 0, FALSE).g, 1, l3, 0, FALSE)

\* n = Node(pose, graph); end = n.add_edge(l1); end.add_edge(l2): one Edge of two segments
ExtendedScript(l1, l2) == EndAddEdge(LineScript(0, l1).g, End(1, TARGET), l2, 0, TRUE).g

StartGraphs ==
    {EmptyGraph}
    \cup {LineScript(d, l1).g : d \in Dirs, l1 \in Lengths}
    \cup {ChainScript(0, l1, l2, l3).g : l1 \in {1}, l2 \in Lengths, l3 \in Lengths}
    \cup {SwitchScript(0, l1, l2, l3).g : l1 \in {1}, l2 \in Lengths, l3 \in Lengths}
    \cup {ParallelScript(0, l1, l2, l3) : l1 \in {1}, l2 \in Lengths, l3 \in Lengths}
    \cup {BareChainScript(x[1], x[2], f) : x \in {<<1, 3>>, <<3, 1>>}, f \in BOOLEAN}
    \cup {FanScript(l1, l2, l3).g : l1 \in {1}, l2 \in {2}, l3 \in Lengths}
    \cup {ExtendedScript(l1, l2) : l1 \in {1}, l2 \in {2}}

GraphInit ==
    /\ \E g \in StartGraphs :
         /\ nodes = g.nodes
         /\ edges = g.edges
         /\ node = g.node
         /\ edge = g.edge
         /\ obj = g.obj
    /\ last = Call("Graph")
    /\ nulled = {}
    /\ calls = 0

IndexInit ==
    /\ first_index = 1
    /\ next_index = 1
    /\ indices = <<>>
    /\ attrs = <<>>
    /\ reg_order = <<>>
    /\ first_ret = <<>>
    /\ idx_ret = <<>>

\* No Node, STFOutput, _TileManager or ORWriter is looked at
NoOthers ==
    /\ cd = <<>>
    /\ stf = <<>>
    /\ tm = <<>>
    /\ sh = <<>>
    /\ wr = <<>>
    /\ NoPaths
    /\ NoClient

\* An empty Graph on which no call is made
NoGraph ==
    /\ nodes = <<>>
    /\ edges = <<>>
    /\ node = <<>>
    /\ edge = <<>>
    /\ obj = <<>>
    /\ last = Call("Graph")
    /\ nulled = {}
    /\ calls = 0

Init == GraphInit /\ IndexInit /\ NoOthers

Next ==
    \/ NewNode
    \/ NewEdge
    \/ SetSource
    \/ SetTarget
    \/ Flip
    \/ RemoveEdge
    \/ RemoveNode
    \/ NewSceneryObject
    \/ NodeAddEdgeCall
    \/ EndAddEdgeCall
    \/ SetDirectionsCall
    \/ ContractEdgesCall
    \/ MakeDirectedCall
    \/ FindShortestPathFromNode
    \/ FindShortestPathFromEnd

Spec == Init /\ [][Next]_vars

\* ------------------------------------------------- the session of an _Indexer
InstallIndexer(ix) ==
    /\ next_index' = ix.next_index
    /\ indices' = ix.indices
    /\ attrs' = ix.attrs

\* History: the items of a call, appended in order to the registration order when new
RECURSIVE Registered(_, _)
Registered(order, items) ==
    IF items = <<>> THEN order
    ELSE IF Contains(order, Head(items)) THEN Registered(order, Tail(items))
    ELSE Registered(Append(order, Head(items)), Tail(items))

\* History: the index each item had after the call in which it was first registered
FirstAssigned(ix) ==
    [i \in DOMAIN ix.indices |-> IF i \in DOMAIN first_ret THEN first_ret[i] ELSE ix.indices[i]]

\* indexer.get_or_add(item)
GetOrAddCall ==
    /\ \E item \in Items :
         \E r \in {get_or_add(Indexer, item)} :
            /\ InstallIndexer(r.ix)
            /\ idx_ret' = [op |-> "get_or_add", item |-> item, ret |-> r.ret]
            /\ reg_order' = Registered(reg_order, <<item>>)
            /\ first_ret' = IF item \in DOMAIN first_ret THEN first_ret
                            ELSE (item :> r.ret) @@ first_ret
    /\ UNCHANGED <<first_index>>
    /\ UNCHANGED outsideIndexer

\* indexer[item]
GetItemCall ==
    /\ \E item \in Items :
         \E r \in {get_or_add(Indexer, item)} :
            /\ InstallIndexer(r.ix)
            /\ idx_ret' = [op |-> "[]", item |-> item, ret |-> r.ret]
            /\ reg_order' = Registered(reg_order, <<item>>)
            /\ first_ret' = IF item \in DOMAIN first_ret THEN first_ret
                            ELSE (item :> r.ret) @@ first_ret
    /\ UNCHANGED <<first_index>>
    /\ UNCHANGED outsideIndexer

\* indexer.register(*items)
RegisterCall ==
    /\ \E k \in 0..MaxRegister :
         \E items \in [1..k -> Items] :
            \E ix \in {register(Indexer, items)} :
               /\ InstallIndexer(ix)
               /\ idx_ret' = [op |-> "register", items |-> items]
               /\ reg_order' = Registered(reg_order, items)
               /\ first_ret' = FirstAssigned(ix)
    /\ UNCHANGED <<first_index>>
    /\ UNCHANGED outsideIndexer

\* _Indexer(key, first_index), beside an empty Graph
InitIndexer ==
    /\ NoGraph
    /\ NoOthers
    /\ first_index \in FirstIndexValues
    /\ next_index = first_index
    /\ indices = <<>>
    /\ attrs = <<>>
    /\ reg_order = <<>>
    /\ first_ret = <<>>
    /\ idx_ret = <<>>

NextIndexer ==
    \/ GetOrAddCall
    \/ GetItemCall
    \/ RegisterCall

SpecIndexer == InitIndexer /\ [][NextIndexer]_vars

\* ------------------------------------------- a Node and its incident directions
\* An Edge is attached to the Node (set_source, set_target): directions() is one longer
AttachEdge ==
    /\ Len(cd.dirs) < MaxDegree
    /\ \E a \in Angles : cd' = [cd EXCEPT !.dirs = Append(@, a), !.called = FALSE]
    /\ UNCHANGED outsideNode

\* node.calculate_direction()
CalculateDirectionCall ==
    /\ \E r \in {DirectionAmong(cd.dirs, cd.dir)} :
          cd' = [cd EXCEPT !.dir = r.dir, !.ok = r.ok, !.called = TRUE]
    /\ UNCHANGED outsideNode

\* Node(pose), beside an empty Graph
InitDirection ==
    /\ NoGraph
    /\ IndexInit
    /\ cd = [dirs |-> <<>>, dir |-> 0, ok |-> FALSE, called |-> FALSE]
    /\ stf = <<>>
    /\ tm = <<>>
    /\ sh = <<>>
    /\ wr = <<>>
    /\ NoPaths
    /\ NoClient

NextDirection ==
    \/ AttachEdge
    \/ CalculateDirectionCall

SpecDirection == InitDirection /\ [][NextDirection]_vars

\* ------------------------------------------------------------- an STFOutput
\* The lines a write can be given: strings of at most MaxLine characters
Lines == UNION {[1..n -> Chars] : n \in 0..MaxLine}

\* content.splitlines() of the contents a write can be given: at most MaxLines lines
Contents == UNION {[1..n -> Lines] : n \in 0..MaxLines}

\* line.lstrip()
RECURSIVE lstrip(_)
lstrip(line) ==
    IF line # <<>> /\ Head(line) = " " THEN lstrip(Tail(line)) ELSE line

\* line.count(c)
count(line, c) == Cardinality({i \in 1..Len(line) : line[i] = c})

\* line.startswith(')')
StartsWithClose(line) == line # <<>> /\ Head(line) = ")"

\* The indent of a stripped line for the balance p
Indent(p, line) == IF StartsWithClose(line) THEN p - 1 ELSE p

\* The loop of write over the lines. st = [parentheses, opened, closed, raised]: the
\* balance, the delimiters of indented_lines so far, and whether the assert failed.
RECURSIVE WriteLoop(_, _)
WriteLoop(st, lines) ==
    IF lines = <<>> THEN st
    ELSE IF Indent(st.parentheses, lstrip(Head(lines))) < 0
    THEN [st EXCEPT !.raised = TRUE]
    ELSE WriteLoop([parentheses |-> st.parentheses + count(lstrip(Head(lines)), "(")
                                                   - count(lstrip(Head(lines)), ")"),
                    opened |-> st.opened + count(lstrip(Head(lines)), "("),
                    closed |-> st.closed + count(lstrip(Head(lines)), ")"),
                    raised |-> FALSE],
                   Tail(lines))

\* STFOutput.write(content) on the output o: indented_lines reaches the file only when no
\* assert failed; _parentheses keeps what the loop did to it
Written(o, r) ==
    [o EXCEPT !.parentheses = r.parentheses,
              !.opened = IF r.raised THEN @ ELSE @ + r.opened,
              !.closed = IF r.raised THEN @ ELSE @ + r.closed,
              !.raised = r.raised,
              !.failed = @ \/ r.raised]

write(o, lines) ==
    Written(o, WriteLoop([parentheses |-> o.parentheses, opened |-> 0, closed |-> 0,
                          raised |-> FALSE], lines))

\* STFOutput.close_parentheses()
RECURSIVE close_parentheses(_)
close_parentheses(o) ==
    IF o.parentheses > 0 /\ ~o.raised THEN close_parentheses(write(o, << <<")">> >>)) ELSE o

\* with STFOutput(path, signature) as f: the file is opened and the signature line written
EnterCall ==
    /\ stf.state = "new"
    /\ stf' = [write(stf, << <<"x">>, <<>> >>) EXCEPT !.state = "open"]
    /\ UNCHANGED outsideSTF

\* f.write(content)
WriteCall ==
    /\ stf.state = "open"
    /\ stf.writes < MaxWrites
    /\ \E content \in Contents :
          stf' = [write(stf, content) EXCEPT !.writes = @ + 1]
    /\ UNCHANGED outsideSTF

\* f.close(), also at the end of the with block
CloseCall ==
    /\ stf.state = "open"
    /\ stf' = [close_parentheses([stf EXCEPT !.raised = FALSE]) EXCEPT !.state = "closed"]
    /\ UNCHANGED outsideSTF

\* STFOutput(path, signature)
InitSTF ==
    /\ NoGraph
    /\ IndexInit
    /\ cd = <<>>
    /\ stf = [state |-> "new", parentheses |-> 0, opened |-> 0, closed |-> 0,
              raised |-> FALSE, failed |-> FALSE, writes |-> 0]
    /\ tm = <<>>
    /\ sh = <<>>
    /\ wr = <<>>
    /\ NoPaths
    /\ NoClient

NextSTF ==
    \/ EnterCall
    \/ WriteCall
    \/ CloseCall

SpecSTF == InitSTF /\ [][NextSTF]_vars

\* ------------------------------------------------------------ a _TileManager
\* round(x / d) for integers x and d > 0: Python rounds a half to the even neighbour
round(x, d) ==
    IF 2 * (x % d) < d THEN x \div d
    ELSE IF 2 * (x % d) > d THEN (x \div d) + 1
    ELSE IF (x \div d) % 2 = 0 THEN x \div d ELSE (x \div d) + 1

\* pos2tile(pos, start_tile)
pos2tile(pos, start_tile) ==
    <<round(pos[1], TILE_SIZE) + start_tile[1], round(pos[2], TILE_SIZE) + start_tile[2]>>

\* The tile and the eight tiles around it
Surrounding(tile) == {<<tile[1] + i, tile[2] + j>> : i \in {-1, 0, 1}, j \in {-1, 0, 1}}

\* The loops of _TileManager.register: a new _Indexer for every surrounding tile that has
\* none
WithSurrounding(tiles, tile) ==
    [t \in DOMAIN tiles \cup Surrounding(tile) |->
        IF t \in DOMAIN tiles THEN tiles[t] ELSE [next_index |-> 1, indices |-> <<>>]]

\* self[tile].register(item): the _Indexer of the tile, which writes item.attrs[OR_W_FILE_INDEX]
RegisterInTile(m, tile, item) ==
    register([next_index |-> m.tiles[tile].next_index, indices |-> m.tiles[tile].indices,
              attrs |-> m.w_file_index],
             <<item>>)

\* The _TileManager after self[tile].register(item), whose result is ix, and
\* item.attrs[OR_TILE] = tile
TileRegistered(m, tile, item, ix) ==
    [m EXCEPT !.tiles[tile] = [next_index |-> ix.next_index, indices |-> ix.indices],
              !.w_file_index = ix.attrs,
              !.or_tile = (item :> tile) @@ @]

\* _TileManager.register(item, pos), for the tile of pos
RegisterAt(m, item, tile) ==
    TileRegistered([m EXCEPT !.tiles = WithSurrounding(@, tile)], tile, item,
                   RegisterInTile([m EXCEPT !.tiles = WithSurrounding(@, tile)], tile, item))

\* Fault: the item is given to the container of every surrounding tile
RegisterAround(m, item, pos) ==
    [RegisterAt(m, item, pos2tile(pos, m.start_tile)) EXCEPT
        !.tiles = [t \in DOMAIN @ |->
                      IF t \in Surrounding(pos2tile(pos, m.start_tile))
                      THEN [next_index |-> 2, indices |-> (item :> 1) @@ @[t].indices]
                      ELSE @[t]]]

TileManagerRegister(m, item, pos) == RegisterAt(m, item, pos2tile(pos, m.start_tile))

\* self._world_indices.register(item, pos) as _init_indices calls it: pos is the position
\* of the item (segment.start.pos, obj.global_pose.pos)
TileRegisterCall ==
    /\ tm.calls < MaxTileCalls
    /\ \E item \in TileItems :
          tm' = [TileManagerRegister(tm, item, tm.pos[item]) EXCEPT
                    !.calls = @ + 1,
                    !.log = Append(@, item)]
    /\ UNCHANGED outsideTiles

\* _TileManager(tile_x, tile_z), and the items with their positions
InitTiles ==
    /\ NoGraph
    /\ IndexInit
    /\ cd = <<>>
    /\ stf = <<>>
    /\ \E pos \in [TileItems -> TilePositions] :
          tm = [start_tile |-> DEFAULT_START_TILE, tiles |-> <<>>, w_file_index |-> <<>>,
                or_tile |-> <<>>, pos |-> pos, calls |-> 0, log |-> <<>>]
    /\ sh = <<>>
    /\ wr = <<>>
    /\ NoPaths
    /\ NoClient

NextTiles == TileRegisterCall

SpecTiles == InitTiles /\ [][NextTiles]_vars

\* ------------------------------------------- the section shapes of an ORWriter
\* segment.straight()
straight(radius) == radius = 0

\* Fault: only a left arc gets the even shape id
get_section_index_left(ix, segment, radius) ==
    [ix |-> get_or_add(ix, segment).ix,
     ret |-> IF radius < 0 THEN 2 * get_or_add(ix, segment).ret - 40000
             ELSE 2 * get_or_add(ix, segment).ret - 40000 + 1]

\* ORWriter._get_section_index(segment) for the _Indexer ix = self._section_indices.
\* Result: [ix, ret].
get_section_index(ix, segment, radius) ==
    [ix |-> get_or_add(ix, segment).ix,
     ret |-> IF radius <= 0 THEN 2 * get_or_add(ix, segment).ret - 40000
             ELSE 2 * get_or_add(ix, segment).ret - 40000 + 1]

\* write_tsection_file, first loop: the TrackSection entries <<segment, shape id>> of one
\* segment with section index idx
TrackSections(segment, idx, radius) ==
    IF straight(radius) THEN {<<segment, 2 * (idx - 20000)>>}
    ELSE {<<segment, 2 * (idx - 20000)>>, <<segment, 2 * (idx - 20000) + 1>>}

\* The shape ids a file refers to: _get_section_index for every segment of the list, in
\* order. st = [ix, used]
RECURSIVE SectionRefs(_, _, _, _)
SectionRefs(st, file, segments, radius) ==
    IF segments = <<>> THEN st
    ELSE SectionRefs(
            [ix |-> get_section_index(st.ix, Head(segments), radius[Head(segments)]).ix,
             used |-> st.used \cup
                        {<<file, Head(segments),
                           get_section_index(st.ix, Head(segments), radius[Head(segments)]).ret>>}],
            file, Tail(segments), radius)

\* The segments in the order of self._section_indices (a dict: the order of registration)
RECURSIVE InOrder(_, _)
InOrder(ix, i) ==
    IF i >= ix.next_index THEN <<>>
    ELSE <<CHOOSE seg \in DOMAIN ix.indices : ix.indices[seg] = i>> \o InOrder(ix, i + 1)

AfterRefs(s, st) == [s EXCEPT !.ix = st.ix, !.used = st.used]

\* writer.write_tsection_file()
WriteTsectionCall ==
    /\ sh' = [AfterRefs(sh, SectionRefs([ix |-> sh.ix, used |-> sh.used], "tsection",
                                        InOrder(sh.ix, 40000), sh.radius))
                 EXCEPT !.defined = UNION {TrackSections(seg, sh.ix.indices[seg], sh.radius[seg]) :
                                              seg \in DOMAIN sh.ix.indices}]
    /\ UNCHANGED outsideShapes

\* writer.write_world_files(): a Dyntrack for every segment
WriteDyntracksCall ==
    /\ sh' = AfterRefs(sh, SectionRefs([ix |-> sh.ix, used |-> sh.used], "world",
                                       InOrder(sh.ix, 40000), sh.radius))
    /\ UNCHANGED outsideShapes

\* writer.write_tdb(): a TrVectorSection for every segment
WriteVectorSectionsCall ==
    /\ sh' = AfterRefs(sh, SectionRefs([ix |-> sh.ix, used |-> sh.used], "tdb",
                                       InOrder(sh.ix, 40000), sh.radius))
    /\ UNCHANGED outsideShapes

\* ORWriter(directory, graph) for a graph whose segments have the radii of the list:
\* self._section_indices = _Indexer(OR_SECTION_INDEX, 40000), and the segments registered
InitShapes ==
    /\ NoGraph
    /\ IndexInit
    /\ cd = <<>>
    /\ stf = <<>>
    /\ tm = <<>>
    /\ \E n \in 1..MaxSegments :
          \E radius \in [1..n -> Radii] :
             sh = [radius |-> radius,
                   ix |-> register([next_index |-> 40000, indices |-> <<>>, attrs |-> <<>>],
                                   [k \in 1..n |-> k]),
                   defined |-> {},
                   used |-> {}]
    /\ wr = <<>>
    /\ NoPaths
    /\ NoClient

NextShapes ==
    \/ WriteTsectionCall
    \/ WriteDyntracksCall
    \/ WriteVectorSectionsCall

SpecShapes == InitShapes /\ [][NextShapes]_vars

\* -------------------------------------------------------------- properties
\* Back-references agree in both directions (the part of check() that does not ask for
\* non-null Nodes), for every Edge and Node object, in the Graph's lists or not.
BackRefsAgree ==
    /\ \A e \in EdgeIds(G) :
         /\ edge[e].source # None =>
              Cardinality({k \in 1..Len(node[edge[e].source].outgoing) :
                              node[edge[e].source].outgoing[k] = e}) = 1
         /\ edge[e].target # None =>
              Cardinality({k \in 1..Len(node[edge[e].target].incoming) :
                              node[edge[e].target].incoming[k] = e}) = 1
    /\ \A n \in NodeIds(G) :
         /\ \A k \in 1..Len(node[n].incoming) : edge[node[n].incoming[k]].target = n
         /\ \A k \in 1..Len(node[n].outgoing) : edge[node[n].outgoing[k]].source = n

\* C1 (as stated): Graph.check() never fails, whatever calls were made: every Edge in
\* Graph.edges has a source and a target and is listed by them, and every Edge a Node
\* lists has that Node as its target (source).
C1_CheckNeverFails == Check(G)

\* C1 (amended): the back-references always agree in both directions, and Graph.check()
\* does not fail as long as no caller has given None as the source or target of an Edge
\* (Edge(source=n), set_source(None), set_target(None)).
C1_BackRefs == BackRefsAgree /\ (nulled = {} => Check(G))

\* Edges were merged by contract_edges, Nodes were split by set_directions or a Node was
\* removed, on a graph whose Edges all got their Nodes
C1_Witness ==
    /\ nulled = {}
    /\ edges # <<>>
    /\ \/ last.op = "contract_edges" /\ last.removed # <<>>
       \/ last.op = "set_directions" /\ last.new_nodes # <<>>

\* C2: ids are permanent, the k-th distinct item registered has the id f + k - 1, and
\* next_index is f plus the number of items registered; a call returns the id the item
\* got first.
C2_Indexer ==
    /\ next_index = first_index + Len(reg_order)
    /\ DOMAIN indices = Range(reg_order)
    /\ Cardinality(Range(reg_order)) = Len(reg_order)
    /\ \A k \in 1..Len(reg_order) :
         /\ indices[reg_order[k]] = first_index + k - 1
         /\ first_ret[reg_order[k]] = first_index + k - 1
         /\ attrs[reg_order[k]] = first_index + k - 1
    /\ (idx_ret # <<>> /\ idx_ret.op # "register") => idx_ret.ret = first_ret[idx_ret.item]

\* All items are registered, and the last call asked again for the first of them
C2_Witness ==
    /\ Len(reg_order) = MaxItems
    /\ idx_ret # <<>>
    /\ idx_ret.op # "register"
    /\ idx_ret.item = reg_order[1]
    /\ idx_ret.ret = first_index

\* --------------------------------------------------- routes (find_shortest_path)
\* The Ends of the Edges that have their Nodes
AllEnds(g) ==
    {End(e, side) : e \in {e \in EdgeIds(g) : g.edge[e].source # None}, side \in {SOURCE, TARGET}}

\* The Node an End leads to
FarNode(g, end) == EndNode(g, OtherEnd(end))

\* The Ends that can follow a on a route: connected_ends(a.other_end()) at the Node they share
Successors(g, a) == Range(ConnectedEnds(g, FarNode(g, a), OtherEnd(a)))

Navigable(g, a, b) == b \in Successors(g, a)

NavigablePairs(g) == UNION {{<<a, b>> : b \in Successors(g, a)} : a \in AllEnds(g)}

\* Of the pairs <<End, length>> of R, the ones with the least length for their End
Shortest(R) == {r \in R : \A q \in R : q[1] = r[1] => r[2] <= q[2]}

\* The pairs of R, and the pairs of the sequences that add one more End to one of R
Longer(g, nav, R) ==
    R \cup {<<p[2][2], p[1][2] + EdgeLength(g, p[2][2].edge)>> :
               p \in {q \in R \X nav : q[1][1] = q[2][1]}}

\* The pairs <<last End, length>> of the shortest navigable End sequences that begin with
\* an End of R, by relaxation (Bellman-Ford); k bounds the number of rounds
RECURSIVE Routes(_, _, _, _)
Routes(g, nav, R, k) ==
    IF k = 0 \/ Shortest(Longer(g, nav, R)) = R THEN R
    ELSE Routes(g, nav, Shortest(Longer(g, nav, R)), k - 1)

\* For each End that leads to end_node, the length of the shortest navigable End sequence
\* from the start Ends to it
RouteLengths(g, start_ends, end_node) ==
    {r[2] : r \in {r \in Routes(g, NavigablePairs(g),
                                Shortest({<<start_ends[i], EdgeLength(g, start_ends[i].edge)>> :
                                             i \in 1..Len(start_ends)}),
                                Cardinality(AllEnds(g)))
                      : FarNode(g, r[1]) = end_node}}

PathLength(g, pth) == SumSeq([i \in 1..Len(pth.ends) |-> EdgeLength(g, pth.ends[i].edge)])

\* The start Ends, the route lengths and the result of the last call of find_shortest_path
Searched == last.op = "find_shortest_path"

LastStartEnds == IF last.start_node # None THEN NodeEnds(G, last.start_node) ELSE <<last.start_end>>

LastRouteLengths == RouteLengths(G, LastStartEnds, last.end_node)

\* C3: when end_node is reachable, the Path returned is as long as a shortest navigable
\* End sequence from start to end_node.
C3_ShortestRoute ==
    Searched =>
        \A lengths \in {LastRouteLengths} :
            lengths # {} =>
                /\ PathLength(G, last.path) \in lengths
                /\ \A l \in lengths : PathLength(G, last.path) <= l

\* The search chose the shorter of two routes of different lengths that separate at a
\* switch and lead to end_node
C3_Witness ==
    /\ Searched
    /\ \E l \in LastRouteLengths : PathLength(G, last.path) < l
    /\ Len(last.path.ends) >= 2
    /\ \E a \in AllEnds(G), b \in AllEnds(G) :
         /\ a.edge # b.edge
         /\ FarNode(G, a) = last.end_node
         /\ FarNode(G, b) = last.end_node
         /\ EdgeLength(G, a.edge) # EdgeLength(G, b.edge)

\* C4 (as stated): when end_node is not reachable, the Path returned is empty.
C4_EmptyWhenUnreachable ==
    (Searched /\ LastRouteLengths = {}) => last.path.ends = <<>>

\* C5: the Path returned for a reachable end_node has no trim, begins with an End of
\* start, ends at end_node, passes from End to End only through connected_ends, and has
\* one End when the graph is a single Edge.
C5_Drivable ==
    (Searched /\ LastRouteLengths # {}) =>
        /\ last.path.start_offset = 0
        /\ last.path.end_offset = 0
        /\ last.path.ends # <<>>
        /\ Contains(LastStartEnds, last.path.ends[1])
        /\ FarNode(G, last.path.ends[Len(last.path.ends)]) = last.end_node
        /\ \A i \in 1..(Len(last.path.ends) - 1) :
             Navigable(G, last.path.ends[i], last.path.ends[i + 1])
        /\ (Len(edge) = 1 /\ edges = <<1>>) => Len(last.path.ends) = 1

\* A Path of three Ends, and a Path that enters a switch at a branch and leaves at the tip
C5_Witness ==
    /\ Searched
    /\ LastRouteLengths # {}
    /\ \/ Len(last.path.ends) = 3
       \/ /\ Len(last.path.ends) = 2
          /\ Degree(G, FarNode(G, last.path.ends[1])) = 3
          /\ last.path.ends[2] = NodeEnds(G, FarNode(G, last.path.ends[1]))[1]

\* ----------------------------------------------------- graphs (make_directed)
\* The Edges of Graph.edges join Nodes of Graph.nodes, which list no other Edges
Closed(g) ==
    /\ Check(g)
    /\ \A i \in 1..Len(g.edges) :
         Contains(g.nodes, g.edge[g.edges[i]].source) /\ Contains(g.nodes, g.edge[g.edges[i]].target)
    /\ \A i \in 1..Len(g.nodes) :
         \A e \in Range(g.node[g.nodes[i]].incoming \o g.node[g.nodes[i]].outgoing) :
            Contains(g.edges, e)

\* The Nodes joined to a Node of S by at most k Edges
RECURSIVE Component(_, _, _)
Component(g, S, k) ==
    IF k = 0 THEN S
    ELSE Component(g,
                   S \cup {g.edge[e].source : e \in {e \in Range(g.edges) : g.edge[e].target \in S}}
                     \cup {g.edge[e].target : e \in {e \in Range(g.edges) : g.edge[e].source \in S}},
                   k - 1)

Connected(g) ==
    g.nodes # <<>> /\ Range(g.nodes) \subseteq Component(g, {g.nodes[1]}, Len(g.nodes))

\* A connected graph without a cycle
Tree(g) == Connected(g) /\ Len(g.edges) + 1 = Len(g.nodes)

SDiffersByLength(g) ==
    \A e \in Range(g.edges) :
        Abs(g.node[g.edge[e].source].s - g.node[g.edge[e].target].s) = EdgeLength(g, e)

\* C6 (as stated): after make_directed on a connected graph with a Node of degree 1, the
\* s of the source and of the target of every Edge differ by the Edge's length.
C6_SDiffers ==
    (last.op = "make_directed" /\ Closed(G) /\ Connected(G) /\ EndNodes(G) # <<>>)
        => SDiffersByLength(G)

\* C6 (amended): it is so on a connected graph with a Node of degree 1 that has no cycle.
C6_SDiffersOnTrees ==
    (last.op = "make_directed" /\ Closed(G) /\ Tree(G) /\ EndNodes(G) # <<>>)
        => SDiffersByLength(G)

\* make_directed on a tree with a switch, where it turned an Edge round and gave a Node
\* another s
C6_Witness ==
    /\ last.op = "make_directed"
    /\ Closed(G)
    /\ Tree(G)
    /\ Len(edges) >= 3
    /\ \E e \in Range(edges) : edge[e].source # last.pre.edge[e].source
    /\ \E n \in Range(nodes) : node[n].s # last.pre.node[n].s

\* --------------------------------------------------- routes (contract_edges)
Contracted == last.op = "contract_edges" /\ ~last.raised

\* The pairs <<Node, length>> of the walks of at most k Edges from the Nodes of R
RECURSIVE Walks(_, _, _)
Walks(g, R, k) ==
    IF k = 0 THEN R
    ELSE Walks(g,
               R \cup {<<g.edge[p[2]].target, p[1][2] + EdgeLength(g, p[2])>> :
                          p \in {q \in R \X Range(g.edges) : g.edge[q[2]].source = q[1][1]}}
                 \cup {<<g.edge[p[2]].source, p[1][2] + EdgeLength(g, p[2])>> :
                          p \in {q \in R \X Range(g.edges) : g.edge[q[2]].target = q[1][1]}},
               k - 1)

\* The lengths of the routes from a to b that pass no Node twice
WalkLengths(g, a, b) == {r[2] : r \in {r \in Walks(g, {<<a, 0>>}, Len(g.nodes)) : r[1] = b}}

\* The length of the shortest route from a to b, as a set: empty when there is none
RouteLength(g, a, b) == {l \in WalkLengths(g, a, b) : \A m \in WalkLengths(g, a, b) : l <= m}

\* C7 (as stated): the length of the route between two Nodes that survive contract_edges
\* is the same before and after the call.
C7_RouteLengthKept ==
    (Contracted /\ Closed(last.pre)) =>
        \A a \in Range(nodes), b \in Range(nodes) :
            RouteLength(last.pre, a, b) = RouteLength(G, a, b)

\* The pose on the track of Edge e at the offset x: the segments are travelled in order,
\* and an Edge without segments is the straight line from its source to its target
RECURSIVE TravelSegments(_, _, _)
TravelSegments(segs, i, x) ==
    IF x <= segs[i].length \/ i = Len(segs) THEN SegTravel(segs[i], x)
    ELSE TravelSegments(segs, i + 1, x - segs[i].length)

TrackPose(g, e, x) ==
    IF g.edge[e].segments # <<>> THEN TravelSegments(g.edge[e].segments, 1, x)
    ELSE SegTravel(EdgeSegment(EdgeStart(g, e), EdgeLength(g, e), 0), x)

\* The place of an object of an Edge: the point of the track at its offset, and its
\* direction there
ObjPlace(g, o) ==
    Pose(TrackPose(g, g.obj[o].rel, g.obj[o].x).pos,
         TrackPose(g, g.obj[o].rel, g.obj[o].x).dir + g.obj[o].dir)

\* C8 (as stated): every object of an Edge is at the same place of the track before and
\* after contract_edges.
C8_ObjectsKept ==
    (Contracted /\ Closed(last.pre)) =>
        \A o \in ObjIds(G) :
            Contains(last.pre.edges, last.pre.obj[o].rel) => ObjPlace(last.pre, o) = ObjPlace(G, o)

\* A Node of degree 2 whose two Ends are the Ends of one Edge
SelfLoopNode(g, n) ==
    Degree(g, n) = 2 /\ g.node[n].incoming = g.node[n].outgoing

\* C9 (as stated): after contract_edges every Node of Graph.nodes that is not the Node of
\* a self-loop has degree 1 or at least 3.
C9_DegreeOneOrThree ==
    Contracted =>
        \A n \in Range(nodes) : SelfLoopNode(G, n) \/ Degree(G, n) = 1 \/ Degree(G, n) >= 3

\* C9 (amended): after contract_edges no Node of Graph.nodes has degree 2, except the Node
\* of a self-loop; a Node without Edges stays.
C9_NoDegreeTwo ==
    Contracted =>
        \A n \in Range(nodes) : Degree(G, n) = 2 => SelfLoopNode(G, n)

\* contract_edges removed a Node and left the Node of a self-loop
C9_Witness ==
    /\ Contracted
    /\ last.removed # <<>>
    /\ \E n \in Range(nodes) : SelfLoopNode(G, n)

\* The keys of the map: the objects removed
RemovedKeys == {<<last.removed[i][1], last.removed[i][2]>> : i \in 1..Len(last.removed)}

\* C10 (as stated): the keys of the map returned by contract_edges are the Nodes and Edges
\* the call removed, and every value is an Edge that is in Graph.edges after the call.
C10_ValuesSurvive ==
    Contracted =>
        /\ RemovedKeys = {<<"Node", n>> : n \in Range(last.pre.nodes) \ Range(nodes)}
                         \cup {<<"Edge", e>> : e \in Range(last.pre.edges) \ Range(edges)}
        /\ \A i \in 1..Len(last.removed) : Contains(edges, last.removed[i][3])

\* ------------------------------------------------- directions (set_directions)
\* C11 (as stated): after set_directions every Node of the Graph, original or created by
\* a split, resolves: calculate_direction() returns True on it.
C11_AllResolve ==
    last.op = "set_directions" =>
        \A n \in Range(nodes) : CalculateDirection(G, n).ok

\* ------------------------------------------------------ growth (End.add_edge)
\* The last call was End.add_edge and took its first branch (the Edge is extended) ...
Extending ==
    /\ last.op = "End.add_edge"
    /\ last.extend_edge
    /\ last.length >= 0
    /\ Degree(last.pre, EndNode(last.pre, last.end)) = 1

\* ... or its second branch (a new Edge is created)
Creating ==
    /\ last.op = "End.add_edge"
    /\ last.length # 0
    /\ ~Extending

\* Nodes, Edges and the source and target of every Edge are as before the call
SameTopology ==
    /\ nodes = last.pre.nodes
    /\ edges = last.pre.edges
    /\ Len(node) = Len(last.pre.node)
    /\ Len(edge) = Len(last.pre.edge)
    /\ \A e \in EdgeIds(G) :
         edge[e].source = last.pre.edge[e].source /\ edge[e].target = last.pre.edge[e].target
    /\ \A n \in NodeIds(G) :
         node[n].incoming = last.pre.node[n].incoming /\ node[n].outgoing = last.pre.node[n].outgoing

\* One segment more on the Edge of the End: at the back for a target End, at the front for
\* a source End; the other Edges keep their segments
OneSegmentAdded ==
    /\ \E seg \in {IF last.end.side = TARGET
                   THEN edge[last.end.edge].segments[Len(edge[last.end.edge].segments)]
                   ELSE edge[last.end.edge].segments[1]} :
          edge[last.end.edge].segments =
              IF last.end.side = TARGET
              THEN Append(last.pre.edge[last.end.edge].segments, seg)
              ELSE <<seg>> \o last.pre.edge[last.end.edge].segments
    /\ \A e \in EdgeIds(G) \ {last.end.edge} : edge[e].segments = last.pre.edge[e].segments

\* C13 (as stated): End.add_edge with extend_edge, length >= 0 and a Node of degree 1
\* leaves the topology alone, adds one segment to the Edge of the End and returns the End.
C13_ExtendAddsSegment ==
    Extending => (SameTopology /\ OneSegmentAdded /\ last.ret = last.end)

\* C13 (amended): it is so for length > 0; for length = 0 the call returns the End and
\* adds nothing.
C13_ExtendPositive ==
    /\ (Extending /\ last.length > 0) => (SameTopology /\ OneSegmentAdded /\ last.ret = last.end)
    /\ (last.op = "End.add_edge" /\ last.length = 0) =>
          (SameTopology /\ last.ret = last.end
           /\ \A e \in EdgeIds(G) : edge[e].segments = last.pre.edge[e].segments)

\* An Edge of two segments was extended at its source End: the segment is in front
C13_Witness ==
    /\ Extending
    /\ last.length > 0
    /\ last.end.side = SOURCE
    /\ Len(edge[last.end.edge].segments) = 3

\* The Edge and the Node the last call created, and the Node of the End it was called on
CreatedEdge == Len(edge)

CreatedNode == Len(node)

OriginNode == EndNode(last.pre, last.end)

\* The new Edge is as Node.add_edge returned it: it leaves the origin Node for
\* length >= 0 and leads to it for length < 0 (there Node.add_edge has flipped it)
AsNodeAddEdge ==
    IF last.length >= 0
    THEN edge[CreatedEdge].source = OriginNode /\ edge[CreatedEdge].target = CreatedNode
    ELSE edge[CreatedEdge].target = OriginNode /\ edge[CreatedEdge].source = CreatedNode

\* End.add_edge has flipped the new Edge
FlippedByEnd ==
    IF last.length >= 0
    THEN edge[CreatedEdge].target = OriginNode /\ edge[CreatedEdge].source = CreatedNode
    ELSE edge[CreatedEdge].source = OriginNode /\ edge[CreatedEdge].target = CreatedNode

\* C14 (as stated): a new Edge is flipped by End.add_edge exactly when it is created from
\* a target End.
C14_FlippedAtTarget ==
    Creating =>
        /\ last.end.side = TARGET => FlippedByEnd
        /\ last.end.side = SOURCE => AsNodeAddEdge

\* C14 (amended): a new Edge is flipped by End.add_edge exactly when it is created from a
\* source End, and left as Node.add_edge returned it when created from a target End.
C14_FlippedAtSource ==
    Creating =>
        /\ last.end.side = SOURCE => FlippedByEnd
        /\ last.end.side = TARGET => AsNodeAddEdge

\* A new Edge was created at a source End and at a Node that had two Edges already
C14_Witness ==
    /\ Creating
    /\ last.end.side = SOURCE
    /\ Degree(last.pre, OriginNode) = 2
    /\ FlippedByEnd

\* C15 (as stated): when End.add_edge creates an Edge, it creates one Edge and one Node,
\* and the End returned is the End of the new Edge at the new Node.
C15_ReturnsFarEnd ==
    Creating =>
        /\ Len(edge) = Len(last.pre.edge) + 1
        /\ Len(node) = Len(last.pre.node) + 1
        /\ last.ret.edge = CreatedEdge
        /\ EndNode(G, last.ret) = CreatedNode

\* ---------------------------------------------- directions (calculate_direction)
\* The angular separation of two directions, in degrees: 0 to 180
Separation(a, b) == IF (a - b) % 360 > 180 THEN 360 - ((a - b) % 360) ELSE (a - b) % 360

\* The incident directions that are more than 120 degrees away from all the others
Apart120(dirs) ==
    {i \in 1..Len(dirs) : \A j \in 1..Len(dirs) : j # i => Separation(dirs[i], dirs[j]) > 120}

Apart(dirs) ==
    {i \in 1..Len(dirs) :
        \A j \in 1..Len(dirs) : j # i => Separation(dirs[i], dirs[j]) * 100 > 11880}

C20_UnbalancedIsFatal ==
    stf # <<>> =>
        /\ stf.parentheses >= 0
        /\ (stf.state = "closed" /\ ~stf.failed) => stf.opened = stf.closed

\* --------------------------------------------------------- tiles (_TileManager)
\* The tiles whose container has the item
TilesOf(item) == {t \in DOMAIN tm.tiles : item \in DOMAIN tm.tiles[t].indices}

\* The tile of an item: the tile of its position
TileOf(item) == pos2tile(tm.pos[item], tm.start_tile)

C19_ShapeIds ==
    sh # <<>> =>
        /\ \A u \in sh.used :
              /\ sh.ix.indices[u[2]] >= 40000
              /\ sh.radius[u[2]] <= 0 =>
                    u[3] = 2 * sh.ix.indices[u[2]] - 40000 /\ u[3] % 2 = 0
              /\ sh.radius[u[2]] > 0 =>
                    u[3] = 2 * sh.ix.indices[u[2]] - 40000 + 1 /\ u[3] % 2 = 1
              /\ u[3] \in {d[2] : d \in TrackSections(u[2], sh.ix.indices[u[2]], sh.radius[u[2]])}
              /\ sh.defined # {} => <<u[2], u[3]>> \in sh.defined
        /\ \A u \in sh.used, v \in sh.used : u[2] # v[2] => u[3] # v[3]
        /\ \A d \in sh.defined, e \in sh.defined : d[2] = e[2] => d[1] = e[1]

\* Three files were written for a straight segment, a left arc and a right arc
C19_Witness ==
    /\ sh # <<>>
    /\ sh.radius = <<0, -2, 1>>
    /\ sh.defined # {}
    /\ {u[1] : u \in sh.used} = {"tsection", "world", "tdb"}
    /\ <<"world", 3, 40005>> \in sh.used

\* ------------------------------------------------------------- an ORWriter
\* The objects an _Indexer of the ORWriter holds: Edges, Nodes, the k-th EdgeSegment of an
\* Edge, scenery objects, and None
EdgeItem(e) == <<"Edge", e, 0>>
NodeItem(n) == <<"Node", n, 0>>
SegmentItem(e, k) == <<"EdgeSegment", e, k>>
ObjItem(o) == <<"SceneryObject", o, 0>>
NoneItem == <<"None", 0, 0>>

SIGNAL_TYPE == "Signal"

\* displayable(obj): obj.render and the "shapefile" attribute
displayable(o) == o.render /\ o.shapefile

\* _Indexer(key, first_index)
NewIndexer(first) == [next_index |-> first, indices |-> <<>>, attrs |-> <<>>]

\* for segment in edge.segments: self._world_indices.register(segment, segment.start.pos)
RECURSIVE RegisterSegments(_, _, _, _)
RegisterSegments(m, g, e, k) ==
    IF k > Len(g.edge[e].segments) THEN m
    ELSE RegisterSegments(TileManagerRegister(m, SegmentItem(e, k),
                                              g.edge[e].segments[k].start.pos),
                          g, e, k + 1)

SegmentItems(g, e) == [k \in 1..Len(g.edge[e].segments) |-> SegmentItem(e, k)]

\* if obj.object_type == SIGNAL_TYPE: self._tr_item_ids.register(obj)
RegisterSignal(st, g, o) ==
    IF g.obj[o].object_type = SIGNAL_TYPE
    THEN [st EXCEPT !.tr_item = register(@, <<ObjItem(o)>>)]
    ELSE st

\* The body of the loop over edge.scenery_objects. Edge.to_global returns None for an Edge
\* without segments, and obj.global_pose.pos raises then.
RegisterEdgeObj(st, g, o) ==
    IF ~displayable(g.obj[o]) THEN st
    ELSE IF g.edge[g.obj[o].rel].segments = <<>>
    THEN [RegisterSignal(st, g, o) EXCEPT !.raised = TRUE]
    ELSE [RegisterSignal(st, g, o) EXCEPT
             !.world = TileManagerRegister(@, ObjItem(o),
                                           TrackPose(g, g.obj[o].rel, g.obj[o].x).pos)]

RECURSIVE RegisterEdgeObjs(_, _, _)
RegisterEdgeObjs(st, g, os) ==
    IF os = <<>> \/ st.raised THEN st
    ELSE RegisterEdgeObjs(RegisterEdgeObj(st, g, Head(os)), g, Tail(os))

\* Fault: the source Node of an Edge is numbered together with the Edge
RegisterEdgeWithSource(st, g, e) ==
    RegisterEdgeObjs([st EXCEPT !.world = RegisterSegments(@, g, e, 1),
                                !.section = register(@, SegmentItems(g, e)),
                                !.tdb = register(@, <<EdgeItem(e), NodeItem(g.edge[e].source)>>)],
                     g, g.edge[e].objs)

\* The body of the loop over self.graph.edges
RegisterEdge(st, g, e) ==
    RegisterEdgeObjs([st EXCEPT !.world = RegisterSegments(@, g, e, 1),
                                !.section = register(@, SegmentItems(g, e)),
                                !.tdb = register(@, <<EdgeItem(e)>>)],
                     g, g.edge[e].objs)

RECURSIVE RegisterEdges(_, _, _)
RegisterEdges(st, g, es) ==
    IF es = <<>> \/ st.raised THEN st
    ELSE RegisterEdges(RegisterEdge(st, g, Head(es)), g, Tail(es))

\* self.graph.scenery_objects: the objects that are relative to no Edge, in the order of
\* their creation
GraphObjs(g) == SelectSeq([o \in 1..Len(g.obj) |-> o], LAMBDA o : g.obj[o].rel = None)

\* Fault: a Signal of the Graph is registered like any other object
RegisterGraphObjUnchecked(st, g, o) ==
    IF ~displayable(g.obj[o]) THEN st
    ELSE [st EXCEPT !.world = TileManagerRegister(@, ObjItem(o), <<g.obj[o].x, g.obj[o].y>>)]

\* The body of the loop over self.graph.scenery_objects
RegisterGraphObj(st, g, o) ==
    IF ~displayable(g.obj[o]) THEN st
    ELSE IF g.obj[o].object_type = SIGNAL_TYPE THEN [st EXCEPT !.raised = TRUE]
    ELSE [st EXCEPT !.world = TileManagerRegister(@, ObjItem(o), <<g.obj[o].x, g.obj[o].y>>)]

RECURSIVE RegisterGraphObjs(_, _, _)
RegisterGraphObjs(st, g, os) ==
    IF os = <<>> \/ st.raised THEN st
    ELSE RegisterGraphObjs(RegisterGraphObj(st, g, Head(os)), g, Tail(os))

\* self._tdb_indices.register(*self.graph.nodes) and the loop after it
RegisterNodes(st, g) ==
    IF st.raised THEN st
    ELSE RegisterGraphObjs([st EXCEPT !.tdb = register(@, [i \in 1..Len(g.nodes) |->
                                                              NodeItem(g.nodes[i])])],
                           g, GraphObjs(g))

\* ORWriter._init_indices()
init_indices(st, g) == RegisterNodes(RegisterEdges(st, g, g.edges), g)

\* ORWriter(directory, graph): the four id tables, filled by _init_indices
ORWriter(g) ==
    init_indices([tdb |-> NewIndexer(1), tr_item |-> NewIndexer(0),
                  section |-> NewIndexer(40000),
                  world |-> [start_tile |-> DEFAULT_START_TILE, tiles |-> <<>>,
                             w_file_index |-> <<>>, or_tile |-> <<>>],
                  raised |-> FALSE],
                 g)

\* The id maps and next_index of the four tables
Ids(st) ==
    [tdb |-> [next_index |-> st.tdb.next_index, indices |-> st.tdb.indices],
     tr_item |-> [next_index |-> st.tr_item.next_index, indices |-> st.tr_item.indices],
     section |-> [next_index |-> st.section.next_index, indices |-> st.section.indices],
     world |-> st.world.tiles]

\* The tiles of the _TileManager, one after the other (a dict: the ids read below do not
\* depend on the order of the tiles)
RECURSIVE TileSeq(_)
TileSeq(S) ==
    IF S = {} THEN <<>>
    ELSE <<CHOOSE t \in S : TRUE>> \o TileSeq(S \ {CHOOSE t \in S : TRUE})

\* The objects of the tiles ts, each tile in the order of its _Indexer
RECURSIVE TileObjects(_, _)
TileObjects(m, ts) ==
    IF ts = <<>> THEN <<>>
    ELSE InOrder(m.tiles[Head(ts)], 1) \o TileObjects(m, Tail(ts))

\* _write_dyntrack reads self._section_indices[obj] (twice), _write_signal_w reads
\* self._tr_item_ids[obj]; _write_static_object reads no table
WorldRef(st, g, item) ==
    IF item[1] = "EdgeSegment" THEN [st EXCEPT !.section = get_or_add(@, item).ix]
    ELSE IF g.obj[item[2]].render /\ g.obj[item[2]].object_type = SIGNAL_TYPE
    THEN [st EXCEPT !.tr_item = get_or_add(@, item).ix]
    ELSE st

RECURSIVE WorldRefs(_, _, _)
WorldRefs(st, g, items) ==
    IF items = <<>> THEN st ELSE WorldRefs(WorldRef(st, g, Head(items)), g, Tail(items))

\* ORWriter.write_world_files()
write_world_files(st, g) ==
    WorldRefs(st, g, TileObjects(st.world, TileSeq(DOMAIN st.world.tiles)))

\* ORWriter.write_tsection_file(): _get_section_index(obj) for every obj of
\* self._section_indices
RECURSIVE SectionReads(_, _)
SectionReads(ix, items) ==
    IF items = <<>> THEN ix ELSE SectionReads(get_or_add(ix, Head(items)).ix, Tail(items))

write_tsection_file(st) ==
    [st EXCEPT !.section = SectionReads(@, InOrder(@, 40000))]

\* for end in obj.ends(): assert end.edge in self._tdb_indices
PinsKnown(st, ends) == \A i \in 1..Len(ends) : EdgeItem(ends[i].edge) \in DOMAIN st.tdb.indices

\* The item of end.segment(): None for an Edge without segments
PrimarySegment(g, end) ==
    IF g.edge[end.edge].segments = <<>> THEN NoneItem
    ELSE IF end.side = SOURCE THEN SegmentItem(end.edge, 1)
    ELSE SegmentItem(end.edge, Len(g.edge[end.edge].segments))

\* The TrackNode of a Node whose last End is end: a junction reads
\* self._section_indices[primary_segment]; with no primary segment that read and _uid raise
TdbNodeAt(st, g, n, end) ==
    IF Degree(g, n) = 1
    THEN [st EXCEPT !.raised = PrimarySegment(g, end) = NoneItem
                                 \/ ~PinsKnown(st, NodeEnds(g, n))]
    ELSE [st EXCEPT !.section = get_or_add(@, PrimarySegment(g, end)).ix,
                    !.raised = PrimarySegment(g, end) = NoneItem
                                 \/ ~PinsKnown(st, NodeEnds(g, n))]

\* The TrackNode of a Node: a Node of degree 0 or 2 raises
TdbNode(st, g, n) ==
    IF ~(Degree(g, n) = 1 \/ Degree(g, n) > 2) THEN [st EXCEPT !.raised = TRUE]
    ELSE TdbNodeAt(st, g, n, NodeEnds(g, n)[Degree(g, n)])

\* tr_items of an Edge: its Signals that are rendered
TrItems(g, e) ==
    SelectSeq(g.edge[e].objs,
              LAMBDA o : g.obj[o].object_type = SIGNAL_TYPE /\ g.obj[o].render)

\* The TrackNode of an Edge: it reads self._section_indices[segment] for every segment and
\* self._tr_item_ids[item] for every item of tr_items, and asserts that both Nodes are known
TdbEdge(st, g, e) ==
    [st EXCEPT !.section = SectionReads(@, SegmentItems(g, e)),
               !.tr_item = SectionReads(@, [i \in 1..Len(TrItems(g, e)) |->
                                               ObjItem(TrItems(g, e)[i])]),
               !.raised = \/ NodeItem(g.edge[e].source) \notin DOMAIN st.tdb.indices
                          \/ NodeItem(g.edge[e].target) \notin DOMAIN st.tdb.indices]

RECURSIVE TdbItems(_, _, _)
TdbItems(st, g, items) ==
    IF items = <<>> \/ st.raised THEN st
    ELSE IF Head(items)[1] = "Node"
    THEN TdbItems(TdbNode(st, g, Head(items)[2]), g, Tail(items))
    ELSE TdbItems(TdbEdge(st, g, Head(items)[2]), g, Tail(items))

\* ORWriter.write_tdb(): the loop over self._tdb_indices; the TrItemTable written after it
\* reads the ids by iteration
write_tdb(st, g) == TdbItems(st, g, InOrder(st.tdb, 1))

\* The ORWriter after a write operation whose result is st
AfterWrite(w, st, op) ==
    [w EXCEPT !.tdb = st.tdb, !.tr_item = st.tr_item, !.section = st.section,
              !.world = st.world, !.raised = st.raised, !.op = op]

Session(w) == [tdb |-> w.tdb, tr_item |-> w.tr_item, section |-> w.section,
               world |-> w.world, raised |-> FALSE]

\* writer = ORWriter(directory, graph): a first session, or a later one over the same Graph
NewORWriter ==
    /\ \E st \in {ORWriter(G)} :
          IF wr = <<>>
          THEN wr' = [tdb |-> st.tdb, tr_item |-> st.tr_item, section |-> st.section,
                      world |-> st.world, raised |-> st.raised, ok |-> ~st.raised,
                      op |-> "ORWriter", pre |-> Ids(st), first |-> Ids(st), sessions |-> 1]
          ELSE /\ wr.sessions < MaxSessions
               /\ wr' = [tdb |-> st.tdb, tr_item |-> st.tr_item, section |-> st.section,
                         world |-> st.world, raised |-> st.raised, ok |-> ~st.raised,
                         op |-> "ORWriter", pre |-> Ids(st), first |-> wr.first,
                         sessions |-> wr.sessions + 1]
    /\ UNCHANGED graphVars
    /\ UNCHANGED outsideWriter

\* A write operation needs an ORWriter whose construction did not raise
Constructed == wr # <<>> /\ wr.ok

\* writer.write_track_file(): no table is read
WriteTrackFile ==
    /\ Constructed
    /\ wr' = AfterWrite(wr, Session(wr), "write_track_file")
    /\ UNCHANGED graphVars
    /\ UNCHANGED outsideWriter

\* writer.write_tsection_file()
WriteTsectionFile ==
    /\ Constructed
    /\ wr' = AfterWrite(wr, write_tsection_file(Session(wr)), "write_tsection_file")
    /\ UNCHANGED graphVars
    /\ UNCHANGED outsideWriter

\* writer.write_world_files()
WriteWorldFiles ==
    /\ Constructed
    /\ wr' = AfterWrite(wr, write_world_files(Session(wr), G), "write_world_files")
    /\ UNCHANGED graphVars
    /\ UNCHANGED outsideWriter

\* writer.write_tdb()
WriteTdb ==
    /\ Constructed
    /\ wr' = AfterWrite(wr, write_tdb(Session(wr), G), "write_tdb")
    /\ UNCHANGED graphVars
    /\ UNCHANGED outsideWriter

\* writer.write_path_file(filename, name, start_name, end_name, points): no table is read
WritePathFile ==
    /\ Constructed
    /\ wr' = AfterWrite(wr, Session(wr), "write_path_file")
    /\ UNCHANGED graphVars
    /\ UNCHANGED outsideWriter

\* The scenery objects of a scene: on an Edge or on the Graph, a Signal or not, rendered or
\* not, with or without a shapefile
SceneObjects(g) ==
    [x : ObjOffsets, y : {0}, dir : {0}, rel : EdgeIds(g) \cup {None},
     object_type : {SIGNAL_TYPE, NoType}, render : BOOLEAN, shapefile : BOOLEAN]

\* SceneryObject(pose, object_type, relative_to=..., render=..., shapefile=...)
WithObject(g, o) ==
    IF o.rel = None THEN [g EXCEPT !.obj = Append(@, o)]
    ELSE [g EXCEPT !.obj = Append(@, o), !.edge[o.rel].objs = Append(@, Len(g.obj) + 1)]

RECURSIVE WithObjects(_, _)
WithObjects(S, k) ==
    IF k = 0 THEN S
    ELSE S \cup WithObjects({WithObject(g, o) : <<g, o>> \in
                                UNION {{<<h, p>> : p \in SceneObjects(h)} : h \in S}},
                            k - 1)

\* The Graphs a writer is given: built by the scripts, with up to MaxObjs scenery objects
WriterGraphs ==
    {LineScript(d, l1).g : d \in Dirs, l1 \in Lengths}
    \cup {EndAddEdge(LineScript(0, l1).g, End(1, TARGET), l2, 0, TRUE).g :
             l1 \in Lengths, l2 \in Lengths}
    \cup {SwitchScript(0, l1, l2, l3).g : l1 \in {1}, l2 \in Lengths, l3 \in Lengths}
    \cup {ChainScript(0, l1, l2, l3).g : l1 \in {1}, l2 \in {1}, l3 \in Lengths}
    \cup {EndAddEdge(EndAddEdge(LineScript(0, 1).g, End(1, TARGET), l2, 0, TRUE).g,
                      End(1, TARGET), 1, 0, FALSE).g : l2 \in Lengths}
    \cup {BareChainScript(1, 3, TRUE)}

InitWriter ==
    /\ \E g \in WithObjects(WriterGraphs, MaxObjs) :
         /\ nodes = g.nodes
         /\ edges = g.edges
         /\ node = g.node
         /\ edge = g.edge
         /\ obj = g.obj
    /\ last = Call("Graph")
    /\ nulled = {}
    /\ calls = 0
    /\ IndexInit
    /\ cd = <<>>
    /\ stf = <<>>
    /\ tm = <<>>
    /\ sh = <<>>
    /\ wr = <<>>
    /\ NoPaths
    /\ NoClient

NextWriter ==
    \/ NewORWriter
    \/ WriteTrackFile
    \/ WriteTsectionFile
    \/ WriteWorldFiles
    \/ WriteTdb
    \/ WritePathFile

SpecWriter == InitWriter /\ [][NextWriter]_vars

\* C16: after the construction of the ORWriter no write operation assigns a new id: the id
\* maps and next_index of the track-database, signal/item, section-shape and per-tile
\* _Indexers are those the construction left
C16_WritesAssignNoIds == Constructed => Ids(wr) = wr.pre

\* The number of segments _init_indices meets before the k-th segment of the i-th Edge of
\* graph.edges
SegmentsBefore(g, i, k) ==
    SumSeq([j \in 1..(i - 1) |-> Len(g.edge[g.edges[j]].segments)]) + (k - 1)

\* A session that has just been constructed
Fresh == Constructed /\ wr.op = "ORWriter"

\* C17: the ids the construction assigns follow the order of the Graph: the i-th Edge of
\* graph.edges has the track-database id i, the j-th Node of graph.nodes the id after all the
\* Edges' ids, the section-shape ids count up from 40000 in (edge order, segment order
\* within the edge), and a later session over the same Graph assigns the ids of the first
C17_IdsByOrder ==
    Fresh =>
        /\ \A i \in 1..Len(edges) : wr.tdb.indices[EdgeItem(edges[i])] = i
        /\ \A j \in 1..Len(nodes) : wr.tdb.indices[NodeItem(nodes[j])] = Len(edges) + j
        /\ \A i \in 1..Len(edges) :
              \A k \in 1..Len(edge[edges[i]].segments) :
                 wr.section.indices[SegmentItem(edges[i], k)] = 40000 + SegmentsBefore(G, i, k)
        /\ Ids(wr) = wr.first

\* A second session over a Graph of two Edges, the first of them of two segments
C17_Witness ==
    /\ Fresh
    /\ wr.sessions = 2
    /\ Len(edges) >= 2
    /\ Len(edge[edges[1]].segments) = 2
    /\ wr.tr_item.next_index > 0

\* The objects of graph.scenery_objects that are Signals
GraphSignals(g) == {o \in Range(GraphObjs(g)) : g.obj[o].object_type = SIGNAL_TYPE}

\* C23 as stated: for every Graph with a Signal in its graph-level scenery list the
\* construction of the ORWriter fails
C23_GraphSignalAborts == (wr # <<>> /\ GraphSignals(G) # {}) => ~wr.ok

\* C23: for every Graph with a displayable Signal (rendered, with a shapefile) in its
\* graph-level scenery list the construction of the ORWriter fails, and no write operation
\* is carried out
C23_DisplayableGraphSignalAborts ==
    (wr # <<>> /\ \E o \in GraphSignals(G) : displayable(obj[o])) =>
        ~wr.ok /\ wr.raised /\ wr.op = "ORWriter"

\* The construction was tried over a Graph with an Edge and a displayable Signal of the
\* Graph, after every Edge and Node got its track-database id
C23_Witness ==
    /\ wr # <<>>
    /\ \E o \in GraphSignals(G) : displayable(obj[o])
    /\ ~wr.ok
    /\ Len(edges) >= 1
    /\ wr.tdb.next_index = 1 + Len(edges) + Len(nodes)

\* C24: an object without a shapefile is skipped: through the construction and every write
\* operation it is in no tile and has no signal/item id
C24_NoShapefileSkipped ==
    Constructed =>
        \A o \in 1..Len(obj) :
           ~obj[o].shapefile =>
              /\ ObjItem(o) \notin DOMAIN wr.tr_item.indices
              /\ ObjItem(o) \notin DOMAIN wr.world.or_tile

\* The Edge of the last call was flipped
Flipped == last.op = "flip"

\* The lengths and radii of the segments of Edge e, in their order
Shape(g, e) ==
    [i \in 1..Len(g.edge[e].segments) |->
        <<g.edge[e].segments[i].length, g.edge[e].segments[i].radius>>]

\* The Shape of an Edge seen from its other end
Mirrored(shape) == ListReverse([i \in 1..Len(shape) |-> <<shape[i][1], 0 - shape[i][2]>>])

\* The offset and side of every object of Edge e that is relative to it
Offsets(g, e) ==
    [i \in 1..Len(g.edge[e].objs) |->
        IF g.obj[g.edge[e].objs[i]].rel = e
        THEN <<g.obj[g.edge[e].objs[i]].x, g.obj[g.edge[e].objs[i]].y>>
        ELSE <<>>]

\* Edge e of g is Edge e of h the other way round
Exchanged(h, g, e) ==
    /\ g.edge[e].source = h.edge[e].target
    /\ g.edge[e].target = h.edge[e].source
    /\ Shape(g, e) = Mirrored(Shape(h, e))

\* Edge e of g is as Edge e of h
Restored(h, g, e) ==
    /\ g.edge[e].source = h.edge[e].source
    /\ g.edge[e].target = h.edge[e].target
    /\ Shape(g, e) = Shape(h, e)
    /\ Offsets(g, e) = Offsets(h, e)

NoRepeat(s) == \A i \in 1..Len(s), j \in 1..Len(s) : s[i] = s[j] => i = j

\* C26: graph.make_directed() ends: _make_directed is entered at most once for every End
\* of the Graph, every Edge is added to visited at most once, and every Edge is flipped at
\* most once, in the call that added it
C26_MakeDirectedEnds ==
    last.op = "make_directed" =>
        /\ NoRepeat(last.added)
        /\ NoRepeat(last.flipped)
        /\ Range(last.flipped) \subseteq Range(last.added)
        /\ Range(last.added) \subseteq Range(last.pre.edges)
        /\ last.entered <= 2 * Len(last.pre.edges)

\* make_directed went round a loop: two Edges between the same two Nodes, or an Edge from
\* a Node to itself, were visited, an Edge was flipped, and _make_directed was entered for
\* an Edge that was visited before
C26_Witness ==
    /\ last.op = "make_directed"
    /\ last.flipped # <<>>
    /\ last.entered > Len(last.added)
    /\ \E a \in Range(last.added), b \in Range(last.added) :
          \/ a # b /\ {edge[a].source, edge[a].target} = {edge[b].source, edge[b].target}
          \/ edge[a].source = edge[a].target

\* The number of Ends attached to the Nodes of g
TotalEnds(g) == SumSeq([n \in 1..Len(g.node) |-> Degree(g, n)])

\* The Nodes that list the End: its Edge is in their outgoing (Source side) or incoming list
Holders(g, end) ==
    {n \in NodeIds(g) :
        Contains(IF end.side = SOURCE THEN g.node[n].outgoing ELSE g.node[n].incoming, end.edge)}

\* C28: graph.set_directions() on a Graph whose Nodes all have an Edge ends: every split
\* lowers the degree of the Node it resolves, and not below 1; every End that was attached
\* to one Node is attached to one Node; the number of Ends and the Edges are those before the call; the map returned sends
\* every new Node to the Node it was split from
C28_SplitsLowerDegree ==
    last.op = "set_directions" =>
        /\ \A i \in 1..Len(last.splits) :
              last.splits[i][3] < last.splits[i][2] /\ last.splits[i][3] >= 1
        /\ \A e \in Range(edges), side \in {SOURCE, TARGET} :
              Holders(last.pre, End(e, side)) = {EndNode(last.pre, End(e, side))}
                  => Holders(G, End(e, side)) = {EndNode(G, End(e, side))}
        /\ TotalEnds(G) = TotalEnds(last.pre)
        /\ edges = last.pre.edges
        /\ Len(last.new_nodes) = Len(last.splits)
        /\ \A i \in 1..Len(last.new_nodes) :
              /\ last.new_nodes[i][1] = Len(last.pre.node) + i
              /\ last.new_nodes[i][2] = last.splits[i][1]
              /\ Contains(last.pre.nodes, last.new_nodes[i][2])

\* set_directions split a Node of three Edges
C28_Witness ==
    /\ last.op = "set_directions"
    /\ \E i \in 1..Len(last.splits) : last.splits[i][2] >= 3
    /\ Len(nodes) > Len(last.pre.nodes)

\* ------------------------------------------------ a StepDelayedCommunication
\* A dict of commands: <<>> is dict(), and set_value writes one key
EmptyCommands == <<>>

\* Queue.put(item) on a Queue(maxsize): it blocks while the queue is full; a maxsize of 0
\* is a queue without limit
Full(c) == c.maxsize > 0 /\ Len(c.command_q) >= c.maxsize

\* One step of the simulation is over when the run process has put and the consumer has got
StepDone(c) ==
    IF c.put_done /\ c.got_done
    THEN [c EXCEPT !.step = @ + 1, !.put_done = FALSE, !.got_done = FALSE, !.set_done = FALSE]
    ELSE c

\* comm.set_value(key, value)
SetValueCall ==
    /\ sd.blocked = "no"
    /\ ~sd.set_done
    /\ \E value \in CommandValues :
          sd' = [sd EXCEPT !.receiving_commands = ("THROTTLE" :> value) @@ @,
                           !.set_done = TRUE]
    /\ UNCHANGED outsideCommunication

\* The body of the loop of run(): self.command_q.put(self.receiving_commands.copy()), and
\* self.receiving_commands = dict()
RunPut ==
    /\ sd.blocked = "no"
    /\ ~sd.put_done
    /\ sd.step <= MaxSteps
    /\ sd' = IF Full(sd) THEN [sd EXCEPT !.blocked = "put"]
             ELSE StepDone([sd EXCEPT !.command_q = Append(@, sd.receiving_commands),
                                      !.receiving_commands = EmptyCommands,
                                      !.put_done = TRUE])
    /\ UNCHANGED outsideCommunication

\* comm.get_current_commands(): self.command_q.get(), which blocks while the queue is empty
GetCurrentCommands ==
    /\ sd.blocked = "no"
    /\ ~sd.got_done
    /\ sd.step <= MaxSteps
    /\ sd' = IF sd.command_q = <<>> THEN [sd EXCEPT !.blocked = "get"]
             ELSE StepDone([sd EXCEPT !.command_q = Tail(@),
                                      !.returned = Append(@, Head(sd.command_q)),
                                      !.got_done = TRUE])
    /\ UNCHANGED outsideCommunication

\* StepDelayedCommunication(steps): a Queue(steps) filled with steps empty dicts
InitCommunication ==
    /\ NoGraph
    /\ IndexInit
    /\ cd = <<>>
    /\ stf = <<>>
    /\ tm = <<>>
    /\ sh = <<>>
    /\ wr = <<>>
    /\ NoPaths
    /\ tn = <<>>
    /\ \E steps \in 0..MaxDelay :
          sd = [maxsize |-> steps, command_q |-> [i \in 1..steps |-> EmptyCommands],
                receiving_commands |-> EmptyCommands, step |-> 1, put_done |-> FALSE,
                got_done |-> FALSE, set_done |-> FALSE, blocked |-> "no", returned |-> <<>>]

NextCommunication ==
    \/ SetValueCall
    \/ RunPut
    \/ GetCurrentCommands

SpecCommunication == InitCommunication /\ [][NextCommunication]_vars

\* C29: with one put by the run process and one get_current_commands in every step, in
\* either order, no queue operation blocks
C29_NeverBlocks == sd # <<>> => sd.blocked = "no"

\* ------------------------------------------------------------------- Trains
\* Train(server, consist, is_ego=...): self.current_train_number += 1 reads the attribute of
\* the class (a new Train has none of its own) and writes an attribute of the Train
NewTrain ==
    /\ Len(tn.trains) < MaxTrains
    /\ \E is_ego \in BOOLEAN :
          tn' = [tn EXCEPT !.trains =
                    Append(@, IF is_ego
                              THEN [is_ego |-> TRUE, number |-> 0,
                                    current_train_number |-> tn.current_train_number]
                              ELSE [is_ego |-> FALSE, number |-> tn.current_train_number + 1,
                                    current_train_number |-> tn.current_train_number + 1])]
    /\ UNCHANGED outsideTrains

\* class Train: current_train_number = 0, and no Train
InitTrains ==
    /\ NoGraph
    /\ IndexInit
    /\ cd = <<>>
    /\ stf = <<>>
    /\ tm = <<>>
    /\ sh = <<>>
    /\ wr = <<>>
    /\ NoPaths
    /\ sd = <<>>
    /\ tn = [current_train_number |-> 0, trains |-> <<>>]

NextTrains == NewTrain

SpecTrains == InitTrains /\ [][NextTrains]_vars

\* The Trains that are not the ego train, in the order of their construction
OtherTrains == SelectSeq(tn.trains, LAMBDA t : ~t.is_ego)

\* C30: the ego train has the number 0, and the other Trains have the numbers 1, 2, 3, ...
\* in the order of their construction
C30_TrainsNumbered ==
    tn # <<>> =>
        /\ \A i \in 1..Len(tn.trains) : tn.trains[i].is_ego => tn.trains[i].number = 0
        /\ \A i \in 1..Len(OtherTrains) : OtherTrains[i].number = i

\* --------------------------------------------------------------------- a Path
\* No result (None where the code returns a Vector or None)
NoPoint == [ok |-> FALSE, pos |-> <<0, 0>>]

Point(pos) == [ok |-> TRUE, pos |-> pos]

\* Vector * Vector, and Vector.ortho()
VDot(p, q) == p[1] * q[1] + p[2] * q[2]
ortho(v) == <<0 - v[2], v[1]>>

\* Pose.to_local(other) for a Vector other
PoseToLocal(q, p) ==
    <<VDot(VSub(p, q.pos), polar(q.dir, 1)), VDot(VSub(p, q.pos), ortho(polar(q.dir, 1)))>>

\* The end of EdgeSegment.to_local for the local point l of a straight segment
LocalAt(l, seg, offset, extend_before, extend_after) ==
    IF l[1] < 0 /\ ~extend_before THEN NoPoint
    ELSE IF l[1] > seg.length /\ ~extend_after THEN NoPoint
    ELSE Point(<<l[1] + offset, l[2]>>)

\* EdgeSegment.to_local(other, offset, extend_before, extend_after), a straight segment
SegToLocal(seg, p, offset, extend_before, extend_after) ==
    LocalAt(PoseToLocal(seg.start, p), seg, offset, extend_before, extend_after)

\* The loop of Edge.to_local over the segments, from the i-th
RECURSIVE SegmentsToLocal(_, _, _, _, _, _)
SegmentsToLocal(segs, i, p, offset, extend_before, extend_after) ==
    IF i > Len(segs) THEN NoPoint
    ELSE IF SegToLocal(segs[i], p, offset, extend_before, extend_after /\ i = Len(segs)).ok
    THEN SegToLocal(segs[i], p, offset, extend_before, extend_after /\ i = Len(segs))
    ELSE SegmentsToLocal(segs, i + 1, p, offset + segs[i].length, extend_before, extend_after)

\* Edge.to_local(other, offset, extend_before, extend_after)
EdgeToLocal(g, e, p, offset, extend_before, extend_after) ==
    IF g.edge[e].segments = <<>>
    THEN SegToLocal(EdgeSegment(EdgeStart(g, e), EdgeLength(g, e), 0), p, offset,
                    extend_before, extend_after)
    ELSE SegmentsToLocal(g.edge[e].segments, 1, p, offset, extend_before, extend_after)

\* if end.side == EdgeEnd.TARGET: end.edge.flip(). History: flips lists the Edges flipped.
FlipFor(st, end) ==
    IF end.side = TARGET
    THEN [st EXCEPT !.g = EdgeFlip(st.g, end.edge), !.flips = Append(@, end.edge)]
    ELSE st

\* Fault: the Edge is left as it was flipped
FlipBackNever(st, end) == st

\* finally: if flipped: end.edge.flip()
FlipBack(st, end) ==
    IF end.side = TARGET
    THEN [st EXCEPT !.g = EdgeFlip(st.g, end.edge), !.flips = Append(@, end.edge)]
    ELSE st

\* The body of the loop of Path.to_local for the i-th End, r the result of Edge.to_local on
\* the Edge as it is after FlipFor
LocalStep(st, path, i, r) ==
    IF r.ok THEN [FlipBack(st, path[i]) EXCEPT !.result = r, !.done = TRUE]
    ELSE [FlipBack(st, path[i]) EXCEPT
             !.offset = @ + EdgeLength(FlipBack(st, path[i]).g, path[i].edge)]

\* The loop of Path.to_local from the i-th End; without a result the call returns None
RECURSIVE PathLocalFrom(_, _, _, _, _, _)
PathLocalFrom(st, path, i, p, extend_before, extend_after) ==
    IF i > Len(path) \/ st.done THEN st
    ELSE PathLocalFrom(
             LocalStep(FlipFor(st, path[i]), path, i,
                       EdgeToLocal(FlipFor(st, path[i]).g, path[i].edge, p, st.offset,
                                   extend_before, extend_after /\ i = Len(path))),
             path, i + 1, p, extend_before, extend_after)

\* Path.to_local(other, offset, extend_before, extend_after)
PathToLocal(g, path, p, offset, extend_before, extend_after) ==
    PathLocalFrom([g |-> g, offset |-> offset - path.start_offset, result |-> NoPoint,
                   done |-> FALSE, raised |-> FALSE, flips |-> <<>>],
                  path.ends, 1, p, extend_before, extend_after)

\* Path.to_global(other, offset, extend_before, extend_after): after the first End is
\* transformed and its Edge flipped back, offset += end.edge.length adds a method to a number
\* and raises TypeError; the loop of an empty Path has no pass, and the call returns None
PathToGlobal(g, path, p, offset, extend_before, extend_after) ==
    IF path.ends = <<>>
    THEN [g |-> g, offset |-> offset - path.start_offset, result |-> NoPoint, done |-> FALSE,
          raised |-> FALSE, flips |-> <<>>]
    ELSE [FlipBack(FlipFor([g |-> g, offset |-> offset - path.start_offset,
                            result |-> NoPoint, done |-> FALSE, raised |-> FALSE,
                            flips |-> <<>>],
                           path.ends[1]),
                   path.ends[1])
             EXCEPT !.raised = TRUE]

\* The Path after a call whose outcome is r
Called(op, r) ==
    [pt EXCEPT !.op = op, !.pre = G, !.result = r.result, !.raised = r.raised,
               !.flips = r.flips, !.calls = @ + 1]

\* path.to_global(other, offset, extend_before, extend_after)
PathToGlobalCall ==
    /\ pt.calls < MaxPathCalls
    /\ \E p \in PathPoints, offset \in {0, 1}, extend_before \in BOOLEAN, extend_after \in BOOLEAN :
          \E r \in {PathToGlobal(G, pt.path, p, offset, extend_before, extend_after)} :
             /\ Install(r.g)
             /\ pt' = Called("to_global", r)
    /\ UNCHANGED <<last, nulled, calls>>
    /\ UNCHANGED outsidePath

\* path.to_local(other, offset, extend_before, extend_after)
PathToLocalCall ==
    /\ pt.calls < MaxPathCalls
    /\ \E p \in PathPoints, offset \in {0, 1}, extend_before \in BOOLEAN, extend_after \in BOOLEAN :
          \E r \in {PathToLocal(G, pt.path, p, offset, extend_before, extend_after)} :
             /\ Install(r.g)
             /\ pt' = Called("to_local", r)
    /\ UNCHANGED <<last, nulled, calls>>
    /\ UNCHANGED outsidePath

\* The Paths of at most k Ends over g: every End leaves the Node the End before it leads to
RECURSIVE PathsOver(_, _)
PathsOver(g, k) ==
    IF k = 0 THEN {<<>>}
    ELSE PathsOver(g, k - 1)
         \cup {Append(w, end) : <<w, end>> \in
                  {x \in PathsOver(g, k - 1) \X {End(e, side) : e \in Range(g.edges),
                                                             side \in {SOURCE, TARGET}} :
                      x[1] = <<>> \/ EndNode(g, OtherEnd(x[1][Len(x[1])])) = EndNode(g, x[2])}}

\* The Graphs a Path runs over: built by the scripts, with or without an object on Edge 1
PathGraphs ==
    UNION {{g, WithObject(g, [x |-> 0, y |-> 0, dir |-> 0, rel |-> 1, object_type |-> NoType,
                              render |-> TRUE, shapefile |-> FALSE])} :
              g \in {LineScript(0, 2).g, ExtendedScript(1, 2), SwitchScript(0, 1, 1, 2).g,
                     ParallelScript(0, 1, 1, 2), BareChainScript(1, 3, TRUE)}}

\* Path(ends, start_offset) over a Graph
InitPath ==
    /\ \E g \in PathGraphs :
         /\ nodes = g.nodes
         /\ edges = g.edges
         /\ node = g.node
         /\ edge = g.edge
         /\ obj = g.obj
         /\ \E ends \in PathsOver(g, MaxPath), start_offset \in {0, 1} :
               pt = [path |-> [ends |-> ends, start_offset |-> start_offset], op |-> "Path",
                     pre |-> g, result |-> NoPoint, raised |-> FALSE, flips |-> <<>>,
                     calls |-> 0]
    /\ last = Call("Graph")
    /\ nulled = {}
    /\ calls = 0
    /\ IndexInit
    /\ cd = <<>>
    /\ stf = <<>>
    /\ tm = <<>>
    /\ sh = <<>>
    /\ wr = <<>>
    /\ pf = <<>>
    /\ NoClient

NextPath ==
    \/ PathToGlobalCall
    \/ PathToLocalCall

SpecPath == InitPath /\ [][NextPath]_vars

\* The Edges of the Ends of the Path, and those of its Target-side Ends
PathEdges == {pt.path.ends[i].edge : i \in 1..Len(pt.path.ends)}
TargetSideEdges ==
    {pt.path.ends[i].edge : i \in {j \in 1..Len(pt.path.ends) : pt.path.ends[j].side = TARGET}}

\* The number of times e is in s
Times(s, e) == Cardinality({i \in 1..Len(s) : s[i] = e})

\* C25: Path.to_global and Path.to_local flip only Edges of Target-side Ends, and when the
\* call ends, with a result, with None or with an error, every Edge of the Path has the
\* source, the target and the order of segments it had before
C25_OrientationRestored ==
    pt # <<>> =>
        /\ Range(pt.flips) \subseteq TargetSideEdges
        /\ \A e \in PathEdges :
              /\ edge[e].source = pt.pre.edge[e].source
              /\ edge[e].target = pt.pre.edge[e].target
              /\ Shape(G, e) = Shape(pt.pre, e)
              /\ Times(pt.flips, e) % 2 = 0

\* to_local gave a result on the second End of a Path, after the Edges of two Target-side
\* Ends were flipped and flipped back
C25_Witness ==
    /\ pt # <<>>
    /\ pt.op = "to_local"
    /\ pt.result.ok
    /\ Len(pt.flips) = 4
    /\ pt.flips[1] # pt.flips[3]

\* ------------------------------------------------------- write_path_file
\* Positions of waypoints are kept doubled, so that the middle of an Edge of odd length is
\* on the grid: the doubled position at the doubled distance s2 along the segments
RECURSIVE TravelTwice(_, _, _)
TravelTwice(segs, i, s2) ==
    IF i = Len(segs) \/ s2 <= 2 * segs[i].length
    THEN VAdd(VAdd(segs[i].start.pos, segs[i].start.pos), polar(segs[i].start.dir, s2))
    ELSE TravelTwice(segs, i + 1, s2 - 2 * segs[i].length)

\* Edge.travel(s).pos
EdgeTravelTwice(g, e, s2) ==
    IF g.edge[e].segments = <<>>
    THEN VAdd(VAdd(EdgeStart(g, e).pos, EdgeStart(g, e).pos), polar(EdgeStart(g, e).dir, s2))
    ELSE TravelTwice(g.edge[e].segments, 1, s2)

\* End.travel(s).pos
EndTravelTwice(g, end, s2) ==
    IF end.side = SOURCE THEN EdgeTravelTwice(g, end.edge, s2)
    ELSE EdgeTravelTwice(g, end.edge, 2 * EdgeLength(g, end.edge) - s2)

\* Fault: an End as long as the remaining offset is skipped
SkipsWhenEqual(started, offset, length) == ~started /\ offset >= length

\* not started and offset > end.edge.length()
Skips(started, offset, length) == ~started /\ offset > length

\* The inner loop: another End of end.node() leads to the Node this End leads to
Ambiguous(g, end) ==
    \E i \in 1..Len(NodeEnds(g, EndNode(g, end))) :
       /\ NodeEnds(g, EndNode(g, end))[i] # end
       /\ EndNode(g, OtherEnd(NodeEnds(g, EndNode(g, end))[i])) = EndNode(g, OtherEnd(end))

Location(pos, flags, node_flags) == [pos |-> pos, flags |-> flags, node_flags |-> node_flags]

\* The locations an End that is not skipped appends
Waypoints(st, g, end) ==
    <<Location(EndTravelTwice(g, end, 2 * st.offset),
               IF st.started THEN "2 0" ELSE "1 1", "00000000")>>
    \o (IF Ambiguous(g, end)
        THEN <<Location(EndTravelTwice(g, end, EdgeLength(g, end.edge)), "1 1", "00000004")>>
        ELSE <<>>)

\* The body of the loop over points. History: trace lists, for every End, whether it was
\* skipped and the offset left when the loop came to it.
PointStep(st, g, end) ==
    IF Skips(st.started, st.offset, EdgeLength(g, end.edge))
    THEN [st EXCEPT !.offset = @ - EdgeLength(g, end.edge),
                    !.trace = Append(@, [skipped |-> TRUE, offset |-> st.offset])]
    ELSE [st EXCEPT !.locations = @ \o Waypoints(st, g, end),
                    !.started = TRUE,
                    !.offset = 0,
                    !.trace = Append(@, [skipped |-> FALSE, offset |-> st.offset])]

RECURSIVE PointSteps(_, _, _)
PointSteps(st, g, points) ==
    IF points = <<>> THEN st ELSE PointSteps(PointStep(st, g, Head(points)), g, Tail(points))

\* The key of the sort: the flag string; "2 0" is greater than "1 1"
FlagRank(flags) == IF flags = "2 0" THEN 2 ELSE 1

\* Fault: a record is put before the records of its flags
InsertBefore(sorted, x) ==
    SelectSeq(sorted, LAMBDA y : FlagRank(y[2].flags) > FlagRank(x[2].flags))
    \o <<x>>
    \o SelectSeq(sorted, LAMBDA y : FlagRank(y[2].flags) <= FlagRank(x[2].flags))

\* One record more in a list sorted by flags, descending: it comes after the records of
\* its flags (list.sort(key=..., reverse=True) is stable)
Insert(sorted, x) ==
    SelectSeq(sorted, LAMBDA y : FlagRank(y[2].flags) >= FlagRank(x[2].flags))
    \o <<x>>
    \o SelectSeq(sorted, LAMBDA y : FlagRank(y[2].flags) < FlagRank(x[2].flags))

\* locations = list(enumerate(locations)); locations.sort(key=lambda _x: _x[1][1],
\* reverse=True): pairs <<idx, location>>, idx from 0
RECURSIVE SortByFlags(_, _, _)
SortByFlags(sorted, locations, i) ==
    IF i > Len(locations) THEN sorted
    ELSE SortByFlags(Insert(sorted, <<i - 1, locations[i]>>), locations, i + 1)

\* perm = {idx: pdp for pdp, (idx, _) in enumerate(locations)}
Perm(sorted) == [idx \in {sorted[k][1] : k \in 1..Len(sorted)} |->
                    (CHOOSE k \in 1..Len(sorted) : sorted[k][1] = idx) - 1]

\* The TrPathNode lines: flags, nxt and pdp for idx in range(len(locations))
PathNodes(sorted) ==
    [i \in 1..Len(sorted) |->
        [flags |-> sorted[Perm(sorted)[i - 1] + 1][2].node_flags,
         nxt |-> IF i < Len(sorted) THEN i ELSE UNDEFINED,
         pdp |-> Perm(sorted)[i - 1]]]

\* The file written for the locations: the TrackPDP lines and the TrPathNode lines
PathFile(locations) ==
    [locations |-> locations,
     records |-> SortByFlags(<<>>, locations, 1),
     perm |-> Perm(SortByFlags(<<>>, locations, 1)),
     path_nodes |-> PathNodes(SortByFlags(<<>>, locations, 1))]

\* The locations after the loop and locations.append((points[-1].other_end().pose().pos,
\* '1 1', '00000000'))
WithLast(st, g, points) ==
    [st EXCEPT !.locations =
        Append(@, Location(VAdd(EndPose(g, OtherEnd(points[Len(points)])).pos,
                                EndPose(g, OtherEnd(points[Len(points)])).pos),
                           "1 1", "00000000"))]

\* writer.write_path_file(filename, name, start_name, end_name, points), points a Path with
\* its start_offset (a list of Ends has the offset 0); points[-1] raises for no points
WritePathFileCall ==
    /\ pf.calls < MaxPathCalls
    /\ \E points \in PathsOver(G, MaxPath), start_offset \in 0..MaxOffset :
          IF points = <<>>
          THEN pf' = [calls |-> pf.calls + 1, points |-> points, start_offset |-> start_offset,
                      raised |-> TRUE, trace |-> <<>>, file |-> PathFile(<<>>)]
          ELSE \E st \in {PointSteps([locations |-> <<>>, started |-> FALSE,
                                      offset |-> start_offset, trace |-> <<>>], G, points)} :
                 pf' = [calls |-> pf.calls + 1, points |-> points,
                        start_offset |-> start_offset, raised |-> FALSE, trace |-> st.trace,
                        file |-> PathFile(WithLast(st, G, points).locations)]
    /\ UNCHANGED graphVars
    /\ UNCHANGED outsidePathFile

\* An ORWriter over a Graph, and no call of write_path_file
InitPathFile ==
    /\ \E g \in PathGraphs :
         /\ nodes = g.nodes
         /\ edges = g.edges
         /\ node = g.node
         /\ edge = g.edge
         /\ obj = g.obj
    /\ last = Call("Graph")
    /\ nulled = {}
    /\ calls = 0
    /\ IndexInit
    /\ cd = <<>>
    /\ stf = <<>>
    /\ tm = <<>>
    /\ sh = <<>>
    /\ wr = <<>>
    /\ pf = [calls |-> 0, points |-> <<>>, start_offset |-> 0, raised |-> FALSE,
             trace |-> <<>>, file |-> PathFile(<<>>)]
    /\ pt = <<>>
    /\ NoClient

NextPathFile == WritePathFileCall

SpecPathFile == InitPathFile /\ [][NextPathFile]_vars

\* A path file was written
PathFileWritten == pf # <<>> /\ pf.calls > 0 /\ ~pf.raised

\* C21: the records written are the waypoints sorted by their flag string, descending, with
\* equal flags in logical order; perm is a bijection on 0..n-1 that sends every logical index
\* to the place of its record; path node i refers to record perm[i], has the flags of
\* waypoint i and names i+1 as the next, the last one UNDEFINED (4294967295)
C21_SortedAndLinked ==
    PathFileWritten =>
        /\ Len(pf.file.records) = Len(pf.file.locations)
        /\ \A a \in 1..Len(pf.file.records), b \in 1..Len(pf.file.records) :
              a < b =>
                 \/ FlagRank(pf.file.records[a][2].flags) > FlagRank(pf.file.records[b][2].flags)
                 \/ /\ pf.file.records[a][2].flags = pf.file.records[b][2].flags
                    /\ pf.file.records[a][1] < pf.file.records[b][1]
        /\ DOMAIN pf.file.perm = 0..(Len(pf.file.locations) - 1)
        /\ {pf.file.perm[i] : i \in DOMAIN pf.file.perm} = 0..(Len(pf.file.locations) - 1)
        /\ \A i \in 1..Len(pf.file.locations) :
              /\ pf.file.records[pf.file.perm[i - 1] + 1] = <<i - 1, pf.file.locations[i]>>
              /\ pf.file.path_nodes[i].pdp = pf.file.perm[i - 1]
              /\ pf.file.path_nodes[i].flags = pf.file.locations[i].node_flags
              /\ pf.file.path_nodes[i].nxt =
                    IF i < Len(pf.file.locations) THEN i ELSE UNDEFINED

\* A file whose records are not in logical order: a "2 0" waypoint was moved before two
\* "1 1" waypoints
C21_Witness ==
    /\ PathFileWritten
    /\ Len(pf.file.records) >= 4
    /\ pf.file.records[1][2].flags = "2 0"
    /\ pf.file.records[1][1] >= 2
    /\ pf.file.perm[0] # 0

\* The lengths of the Edges of the first k points
SkippedLength(k) == SumSeq([j \in 1..k |-> EdgeLength(G, pf.points[j].edge)])

\* The first End at which the offset left is at most
\* the length of its Edge; 0 if there is none
FirstKept ==
    IF \E i \in 1..Len(pf.points) :
          pf.start_offset - SkippedLength(i - 1) <= EdgeLength(G, pf.points[i].edge)
    THEN CHOOSE i \in 1..Len(pf.points) :
            /\ pf.start_offset - SkippedLength(i - 1) <= EdgeLength(G, pf.points[i].edge)
            /\ \A j \in 1..(i - 1) :
                  pf.start_offset - SkippedLength(j - 1) > EdgeLength(G, pf.points[j].edge)
    ELSE 0

\* C22: the leading Ends are skipped while the offset left is greater than the length of
\* the End's Edge, each taking its length off the offset; the first End not skipped gives
\* the first waypoint at the offset left, and every later End its waypoint at offset 0
C22_SkipsByOffset ==
    PathFileWritten =>
        /\ Len(pf.trace) = Len(pf.points)
        /\ \A i \in 1..Len(pf.points) :
              /\ pf.trace[i].skipped <=> (FirstKept = 0 \/ i < FirstKept)
              /\ (pf.trace[i].skipped \/ i = FirstKept) =>
                    pf.trace[i].offset = pf.start_offset - SkippedLength(i - 1)
              /\ (FirstKept # 0 /\ i > FirstKept) => pf.trace[i].offset = 0
        /\ FirstKept # 0 =>
              pf.file.locations[1] =
                 Location(EndTravelTwice(G, pf.points[FirstKept],
                                         2 * (pf.start_offset - SkippedLength(FirstKept - 1))),
                          "1 1", "00000000")

\* The first End was skipped, and the second, as long as the offset left, was not
C22_Witness ==
    /\ PathFileWritten
    /\ Len(pf.points) = 2
    /\ pf.trace[1].skipped
    /\ ~pf.trace[2].skipped
    /\ pf.trace[2].offset = EdgeLength(G, pf.points[2].edge)
    /\ pf.trace[2].offset > 0

====
